---- MODULE Spec2Model ----
(***************************************************************************)
(* A model of crate-spec: the signed container codec (utils/context.rs,    *)
(* utils/decode.rs), the PKI client and the key-pair bootstrap             *)
(* (network.rs), the encode and decode commands (commands/encode.rs,       *)
(* commands/decode.rs, unpack.rs), the manifest reader                     *)
(* (utils/from_toml.rs) and the configuration loader (config.rs).          *)
(*                                                                         *)
(* The module holds several state machines over one set of variables; a   *)
(* specification runs one of them and leaves the others' variables at     *)
(* their initial value:                                                    *)
(*   SpecPki    one call of PkiClient::sign_digest / verify_digest         *)
(*   SpecPkiFair  the same, a call that was entered running to its end     *)
(*   SpecKey    calls of KeyPair::get_or_fetch on one path, step by step   *)
(*   SpecCodec  a context is built, encoded, and the file is decoded       *)
(*   SpecTamper a file is encoded, one byte of it is changed, with or      *)
(*              without its fingerprint recomputed, and it is decoded      *)
(*   SpecCmd    one run of an encode command, statement by statement       *)
(*   SpecTable  calls of insert_str and read_bytes on one StringTable      *)
(*   SpecUnpack one run of a decode command on an encoded, changed or cut  *)
(*              file, statement by statement                               *)
(*   SpecMask   binary_before_sig over the layouts of one content          *)
(*   SpecToml   write_info_to_package_context on a manifest, then encode   *)
(*   SpecCfg    Config::from_file on a configuration file                  *)
(*                                                                         *)
(* utils/encode.rs and utils/package.rs are not among the sources: the     *)
(* layout of the container and encode_to_crate_package follow spec.md.    *)
(***************************************************************************)
EXTENDS Integers, Sequences, FiniteSets, TLC

VARIABLES
    \* ---- PkiClient (network.rs) ----
    retry_times,   \* PkiClient.retry_times
    endpoint,      \* the PKI endpoint's behaviour (environment)
    pki_pc,        \* "idle" | "loop" | "done": position in sign_digest / verify_digest
    pki_op,        \* "none" | "sign" | "verify"
    attempt,       \* the loop variable of `for attempt in 0..=self.retry_times`
    last_error,    \* the local last_error: "None" or "Some"
    outcomes,      \* history: the outcome of every request sent by the call
    sleeps,        \* history: number of thread::sleep calls made by the call
    pki_ret,       \* the call's return value
    \* ---- KeyPair::get_or_fetch (network.rs) ----
    key_file,      \* the file at `path`: [exists, content, mode]
    umask,         \* the process's umask (environment)
    key_pc,        \* position in get_or_fetch / save_to_file
    key_kp,        \* the local `keypair` of get_or_fetch
    key_reqs,      \* history: /v1/keypair requests sent by the running call
    key_before,    \* history: the file when the running call began
    klog,          \* history: one record per call that ended
    \* ---- PackageContext: encode and decode (utils/context.rs, utils/decode.rs) ----
    ctx,           \* the PackageContext being built and encoded
    platform,      \* the condition of the PKI platform (environment)
    sig_rets,      \* history: the values returned by add_sig
    scrate,        \* the bytes of the container file
    enc,           \* the return of encode_to_crate_package, with the signatures produced
    tampered,      \* history: what was done to the file after it was encoded
    dctx,          \* the PackageContext that decodes
    dec,           \* the return of decode_from_crate_package, with its steps
    c_pc,          \* "build" | "encoded" | "tampered" | "decoded" | "failed"
    \* ---- LocalEncodeCommand / NetworkEncodeCommand (commands/encode.rs) ----
    cmd_kind,      \* "none" | "local" | "network"
    cmd_pc,        \* position in execute
    out_file,      \* the file at bin_path: [exists, content]
    out_dir,       \* whether the directory params.output exists
    out_before,    \* history: the file at bin_path when execute began
    cmd_locals,    \* the locals pki_client, keypair and pkcs of execute
    cmd_ret,       \* the return of execute
    \* ---- StringTable (utils/context.rs) ----
    tbl_self,      \* the StringTable
    tbl_last,      \* history: the last call, its arguments, its return, the table before it
    tbl_calls,     \* history: the number of calls so far
    tbl_reads,     \* history: the number of read_bytes calls so far
    tbl_failed,    \* history: whether a read_bytes call returned an error
    \* ---- LocalDecodeCommand / NetworkDecodeCommand (commands/decode.rs, unpack.rs) ----
    un_kind,       \* "none" | "local" | "network"
    un_pc,         \* position in execute
    un_file,       \* the file at params.input: <<>> or <<its bytes>>
    un_cas,        \* the files at params.root_ca_paths, <<>> or <<bytes>> each
    un_ctx,        \* the local pack_context of execute, once it holds a decoded context
    un_dec,        \* history: the return and the steps of decode_from_crate_package
    un_unpacked,   \* history: the return of unpack_context
    un_dir,        \* whether ensure_output_dir created the directory
    un_bin,        \* the file at bin_path: [exists, content]
    un_meta,       \* the file at metadata_path: [exists, content]
    un_before,     \* history: both files when execute began
    un_ret,        \* the return of execute
    \* ---- PackageContext::binary_before_sig over layouts (utils/context.rs) ----
    mask_ctx,      \* the context laid out
    mask_pc,       \* "idle" | "start" | "done"
    mask_out,      \* history: the buffers computed
    \* ---- CrateToml::write_info_to_package_context (utils/from_toml.rs) ----
    manifest,      \* the tables [package] and [dependencies] of Cargo.toml, an Option each
    toml_ctx,      \* the PackageContext written to
    toml_ret,      \* the return of write_info_to_package_context
    toml_pc,       \* "idle" | "start" | "ingested" | "encoded"
    toml_deps,     \* history: the dependencies read back from the encoded file
    \* ---- Config::from_file (config.rs) ----
    cfg_file,      \* the configuration file
    cfg_pc,        \* "idle" | "start" | "done"
    cfg_ret        \* the return of from_file

pkiVars == <<retry_times, endpoint, pki_pc, pki_op, attempt, last_error,
             outcomes, sleeps, pki_ret>>

keyVars == <<key_file, umask, key_pc, key_kp, key_reqs, key_before, klog>>

codecVars == <<ctx, platform, sig_rets, scrate, enc, tampered, dctx, dec, c_pc>>

cmdVars == <<cmd_kind, cmd_pc, out_file, out_dir, out_before, cmd_locals, cmd_ret>>

tblVars == <<tbl_self, tbl_last, tbl_calls, tbl_reads, tbl_failed>>

unpackVars == <<un_kind, un_pc, un_file, un_cas, un_ctx, un_dec, un_unpacked, un_dir,
                un_bin, un_meta, un_before, un_ret>>

maskVars == <<mask_ctx, mask_pc, mask_out>>

tomlVars == <<manifest, toml_ctx, toml_ret, toml_pc, toml_deps>>

cfgVars == <<cfg_file, cfg_pc, cfg_ret>>

extVars == <<tblVars, unpackVars, maskVars, tomlVars, cfgVars>>

vars == <<pkiVars, keyVars, codecVars, cmdVars, extVars>>

(***************************************************************************)
(* Bounds of the model.                                                    *)
(***************************************************************************)
MaxRetryTimes == 3
MaxFailures == 4
MaxKeyCalls == 2
MaxDeps == 2
MaxSigs == 2

(***************************************************************************)
(*                PkiClient::sign_digest / verify_digest                   *)
(***************************************************************************)
NoRet == [tag |-> "none"]

\* What client.post(..).json(..).send() can yield. A transport error carries
\* the three predicates the code asks of it; a response carries its status
\* and what its body parses to.
ErrConnect == [kind |-> "error", is_timeout |-> FALSE, is_connect |-> TRUE,  is_request |-> FALSE]
ErrTimeout == [kind |-> "error", is_timeout |-> TRUE,  is_connect |-> FALSE, is_request |-> FALSE]
ErrRequest == [kind |-> "error", is_timeout |-> FALSE, is_connect |-> FALSE, is_request |-> TRUE]
ErrOther   == [kind |-> "error", is_timeout |-> FALSE, is_connect |-> FALSE, is_request |-> FALSE]

\* body: "good" parses to the response struct (for verify with result "OK"),
\* "notok" parses with result other than "OK", "bad" is not the expected JSON.
Response(status, body) == [kind |-> "response", status |-> status, body |-> body]

TransportErrors == {ErrConnect, ErrTimeout, ErrRequest, ErrOther}
Responses == {Response(200, "good"), Response(200, "notok"), Response(200, "bad"),
              Response(404, "bad"), Response(500, "bad")}

\* The endpoints of the model: one that refuses the first R connections and
\* then answers 200, one that answers every request with one fixed response,
\* and one that may do anything.
Endpoints ==
    [kind : {"flaky"}, R : 0..MaxFailures, resp : {Response(200, "good")}]
    \cup [kind : {"fixed"}, R : {0}, resp : Responses]
    \cup [kind : {"any"}, R : {0}, resp : {Response(200, "good")}]

\* The outcomes the endpoint e can give to the request number n+1.
EndpointOutcomes(e, n) ==
    CASE e.kind = "flaky" -> IF n < e.R THEN {ErrConnect} ELSE {e.resp}
      [] e.kind = "fixed" -> {e.resp}
      [] OTHER -> TransportErrors \cup Responses

\* StatusCode::is_success
is_success(status) == status >= 200 /\ status < 300

\* let is_retryable = e.is_timeout() || e.is_connect() || e.is_request();
is_retryable(e) == e.is_timeout \/ e.is_connect \/ e.is_request

\* The arm `Ok(response)` of sign_digest's match.
SignOnResponse(o) ==
    IF ~is_success(o.status)
    THEN [tag |-> "Err", why |-> "http", status |-> o.status, body |-> o.body]
    ELSE IF o.body = "bad"
         THEN [tag |-> "Err", why |-> "json", status |-> o.status, body |-> o.body]
         ELSE [tag |-> "Ok", why |-> "signature", status |-> o.status, body |-> o.body]

VerifyOnResponse_okFalse(o) ==
    IF ~is_success(o.status)
    THEN [tag |-> "Err", why |-> "http", status |-> o.status, body |-> o.body]
    ELSE IF o.body = "bad"
         THEN [tag |-> "Err", why |-> "json", status |-> o.status, body |-> o.body]
         ELSE [tag |-> "Ok", why |-> IF o.body = "good" THEN "true" ELSE "false",
               status |-> o.status, body |-> o.body]
\* The arm `Ok(response)` of verify_digest's match.
VerifyOnResponse(o) ==
    IF ~is_success(o.status)
    THEN [tag |-> "Err", why |-> "http", status |-> o.status, body |-> o.body]
    ELSE IF o.body = "bad"
         THEN [tag |-> "Err", why |-> "json", status |-> o.status, body |-> o.body]
         ELSE IF o.body = "good"
              THEN [tag |-> "Ok", why |-> "true", status |-> o.status, body |-> o.body]
              ELSE [tag |-> "Err", why |-> "verify", status |-> o.status, body |-> o.body]

\* Whether a pass of the loop ends in `continue`: never in the arm
\* Ok(response); in the arm Err(e) when is_retryable && attempt < retry_times.
ShouldRetry_unbounded(o, att, rt) ==
    o.kind = "error" /\ is_retryable(o)
ShouldRetry_atLast(o, att, rt) ==
    o.kind = "error" /\ is_retryable(o) /\ att <= rt
ShouldRetry_on5xx(o, att, rt) ==
    \/ o.kind = "error" /\ is_retryable(o) /\ att < rt
    \/ o.kind = "response" /\ o.status >= 500 /\ att < rt
ShouldRetry(o, att, rt) ==
    o.kind = "error" /\ is_retryable(o) /\ att < rt

ErrNetwork == [tag |-> "Err", why |-> "network", status |-> 0, body |-> "none"]
ErrFallback == [tag |-> "Err", why |-> "fallback", status |-> 0, body |-> "none"]

\* The range of `for attempt in 0..=self.retry_times`.
InLoopRange_exclusive(att, rt) == att < rt
InLoopRange(att, rt) == att <= rt

\* What the call returns on an outcome that ends it: the arm Ok(response),
\* or the arm Err(e) without `continue`.
CallReturn(o, op) ==
    IF o.kind = "response"
    THEN (IF op = "sign" THEN SignOnResponse(o) ELSE VerifyOnResponse(o))
    ELSE ErrNetwork

\* One pass through the loop of sign_digest or verify_digest: the loop head,
\* the request, the match on its result; op is "sign" or "verify".
LoopPass(o, op) ==
    IF ~InLoopRange(attempt, retry_times)
    THEN \* the statement after the loop
         /\ pki_ret' = ErrFallback
         /\ pki_pc' = "done"
         /\ UNCHANGED <<attempt, last_error, outcomes, sleeps>>
    ELSE /\ outcomes' = Append(outcomes, o)
         /\ IF ShouldRetry(o, attempt, retry_times)
            THEN /\ sleeps' = sleeps + 1
                 /\ last_error' = "Some"
                 /\ attempt' = attempt + 1
                 /\ UNCHANGED <<pki_ret, pki_pc>>
            ELSE /\ pki_ret' = CallReturn(o, op)
                 /\ pki_pc' = "done"
                 /\ UNCHANGED <<attempt, last_error, sleeps>>

\* sign_digest is entered: the locals are initialised.
sign_digest ==
    /\ pki_pc = "idle"
    /\ pki_pc' = "loop"
    /\ pki_op' = "sign"
    /\ attempt' = 0
    /\ last_error' = "None"
    /\ UNCHANGED <<retry_times, endpoint, outcomes, sleeps, pki_ret>>
    /\ UNCHANGED <<keyVars, codecVars, cmdVars, extVars>>

\* verify_digest is entered.
verify_digest ==
    /\ pki_pc = "idle"
    /\ pki_pc' = "loop"
    /\ pki_op' = "verify"
    /\ attempt' = 0
    /\ last_error' = "None"
    /\ UNCHANGED <<retry_times, endpoint, outcomes, sleeps, pki_ret>>
    /\ UNCHANGED <<keyVars, codecVars, cmdVars, extVars>>

sign_digest_pass ==
    /\ pki_pc = "loop"
    /\ pki_op = "sign"
    /\ \E o \in EndpointOutcomes(endpoint, Len(outcomes)) : LoopPass(o, "sign")
    /\ UNCHANGED <<retry_times, endpoint, pki_op>>
    /\ UNCHANGED <<keyVars, codecVars, cmdVars, extVars>>

verify_digest_pass ==
    /\ pki_pc = "loop"
    /\ pki_op = "verify"
    /\ \E o \in EndpointOutcomes(endpoint, Len(outcomes)) : LoopPass(o, "verify")
    /\ UNCHANGED <<retry_times, endpoint, pki_op>>
    /\ UNCHANGED <<keyVars, codecVars, cmdVars, extVars>>

PkiStart ==
    /\ pki_pc = "idle"
    /\ pki_op = "none"
    /\ attempt = 0
    /\ last_error = "None"
    /\ outcomes = <<>>
    /\ sleeps = 0
    /\ pki_ret = NoRet

PkiIdle ==
    /\ retry_times = 0
    /\ endpoint = [kind |-> "any", R |-> 0, resp |-> Response(200, "good")]
    /\ PkiStart

NextPki ==
    \/ sign_digest
    \/ verify_digest
    \/ sign_digest_pass
    \/ verify_digest_pass

(***************************************************************************)
(*                 KeyPair: load, fetch, save, get_or_fetch                *)
(*                                                                         *)
(* A string is the sequence of its bytes. The model's bytes are below 128  *)
(* (one-byte UTF-8) or 255 (never valid in UTF-8), and lengths are below   *)
(* 251, which bincode's standard configuration writes as one byte.         *)
(***************************************************************************)
KEYPAIR_FILE_MODE == 384     \* 0o600
DefaultCreateMode == 438     \* 0o666: the mode File::create asks for

\* mode & ~mask on the permission bits.
RECURSIVE AndNot(_, _)
AndNot(mode, mask) ==
    IF mode = 0 THEN 0
    ELSE ((mode % 2) * (1 - (mask % 2))) + (2 * AndNot(mode \div 2, mask \div 2))

NoFile == [exists |-> FALSE, content |-> <<>>, mode |-> 0]
NoKeyPair == [priv_key |-> <<>>, pub_key |-> <<>>, key_id |-> <<>>,
              base_config |-> [algo |-> <<>>, kms |-> <<>>, flow |-> <<>>]]

IsUtf8(bytes) == \A i \in 1..Len(bytes) : bytes[i] < 128

\* bincode (standard configuration) of a String: the length, then the bytes.
EncodeString(st) == <<Len(st)>> \o st

\* bincode::encode_to_vec of a KeyPair: its fields in declaration order.
EncodeKeyPair_noKeyId(kp) ==
    EncodeString(kp.priv_key) \o EncodeString(kp.pub_key) \o EncodeString(<<>>)
    \o EncodeString(kp.base_config.algo) \o EncodeString(kp.base_config.kms)
    \o EncodeString(kp.base_config.flow)
EncodeKeyPair(kp) ==
    EncodeString(kp.priv_key) \o EncodeString(kp.pub_key) \o EncodeString(kp.key_id)
    \o EncodeString(kp.base_config.algo) \o EncodeString(kp.base_config.kms)
    \o EncodeString(kp.base_config.flow)

\* Decoding k Strings from position pos: the strings read and the position
\* after them, or a failure (unexpected end, invalid UTF-8).
RECURSIVE DecodeStrings(_, _, _)
DecodeStrings(bytes, pos, k) ==
    IF k = 0 THEN [ok |-> TRUE, strs |-> <<>>, next |-> pos]
    ELSE IF pos > Len(bytes) THEN [ok |-> FALSE, strs |-> <<>>, next |-> pos]
    ELSE LET n == bytes[pos] IN
         IF pos + n > Len(bytes) \/ ~IsUtf8(SubSeq(bytes, pos + 1, pos + n))
         THEN [ok |-> FALSE, strs |-> <<>>, next |-> pos]
         ELSE LET rest == DecodeStrings(bytes, pos + n + 1, k - 1) IN
              [ok |-> rest.ok,
               strs |-> <<SubSeq(bytes, pos + 1, pos + n)>> \o rest.strs,
               next |-> rest.next]

\* bincode::decode_from_slice::<KeyPair>: bytes after the value are ignored.
DecodeKeyPair(bytes) ==
    LET d == DecodeStrings(bytes, 1, 6) IN
    IF ~d.ok THEN [ok |-> FALSE, kp |-> NoKeyPair]
    ELSE [ok |-> TRUE,
          kp |-> [priv_key |-> d.strs[1], pub_key |-> d.strs[2], key_id |-> d.strs[3],
                  base_config |-> [algo |-> d.strs[4], kms |-> d.strs[5],
                                   flow |-> d.strs[6]]]]

\* KeyPair::load_from_file: fs::read, then decode.
load_from_file(f) ==
    IF ~f.exists THEN [ok |-> FALSE, kp |-> NoKeyPair] ELSE DecodeKeyPair(f.content)

\* The base_config the caller passes, echoed by the platform.
TheBaseConfig == [algo |-> <<1>>, kms |-> <<>>, flow |-> <<2>>]

\* What fetch_from_pki can meet: the HTTP client cannot be built ("client",
\* before any request); POST /v1/keypair yields a transport error, a status
\* that is not 2xx, a body that is not the expected JSON, or a
\* KeyPairResponse (with or without keyId; the platform issues a key of its
\* choice).
KeyPairReplies ==
    {[kind |-> "client"], [kind |-> "error"], [kind |-> "status"], [kind |-> "badjson"]}
    \cup {[kind |-> "ok", priv |-> <<10 + k>>, pub |-> <<20 + k>>, keyId |-> id] :
             k \in 1..2, id \in {<<"None">>, <<"Some", <<30>>>>}}

\* key_id: keypair_resp.key_id.unwrap_or_default()
KeyPairOf(reply) ==
    [priv_key |-> reply.priv, pub_key |-> reply.pub,
     key_id |-> IF reply.keyId[1] = "Some" THEN reply.keyId[2] ELSE <<>>,
     base_config |-> TheBaseConfig]

KeyOk(kp) == [tag |-> "Ok", kp |-> kp]
KeyErr(why) == [tag |-> "Err", why |-> why]

\* A call ends: its record is appended to the log.
KeyReturn(ret, file, reqs) ==
    /\ klog' = Append(klog, [ret |-> ret, reqs |-> reqs, before |-> key_before,
                             after |-> file])
    /\ key_pc' = "idle"

\* get_or_fetch is called: load_from_file(path) and the match on it.
get_or_fetch ==
    /\ key_pc = "idle"
    /\ Len(klog) < MaxKeyCalls
    /\ key_before' = key_file
    /\ key_reqs' = 0
    /\ LET l == load_from_file(key_file) IN
       IF l.ok
       THEN /\ klog' = Append(klog, [ret |-> KeyOk(l.kp), reqs |-> 0,
                                     before |-> key_file, after |-> key_file])
            /\ key_pc' = "idle"
            /\ UNCHANGED key_kp
       ELSE /\ key_pc' = "fetch"
            /\ UNCHANGED <<klog, key_kp>>
    /\ UNCHANGED <<key_file, umask>>
    /\ UNCHANGED <<pkiVars, codecVars, cmdVars, extVars>>

\* The requests fetch_from_pki sends: Client::builder().build()? comes
\* first and returns without one; client.post(&url).json(&request).send()
\* is called once, outside any loop.
RequestsSent_retried(reply) == IF reply.kind = "client" THEN 0
                               ELSE IF reply.kind = "error" THEN 2 ELSE 1
RequestsSent(reply) == IF reply.kind = "client" THEN 0 ELSE 1

\* fetch_from_pki: the client, one POST, the status, the body.
fetch_from_pki ==
    /\ key_pc = "fetch"
    /\ \E reply \in KeyPairReplies :
          /\ key_reqs' = key_reqs + RequestsSent(reply)
          /\ IF reply.kind = "ok"
             THEN /\ key_kp' = KeyPairOf(reply)
                  /\ key_pc' = "create_dir_all"
                  /\ UNCHANGED klog
             ELSE /\ KeyReturn(KeyErr(reply.kind), key_file, key_reqs + RequestsSent(reply))
                  /\ UNCHANGED key_kp
    /\ UNCHANGED <<key_file, umask, key_before>>
    /\ UNCHANGED <<pkiVars, codecVars, cmdVars, extVars>>

\* save_to_file: fs::create_dir_all(parent)?
save_create_dir_all ==
    /\ key_pc = "create_dir_all"
    /\ \/ key_pc' = "create" /\ UNCHANGED klog
       \/ KeyReturn(KeyErr("create_dir_all"), key_file, key_reqs)
    /\ UNCHANGED <<key_file, umask, key_kp, key_reqs, key_before>>
    /\ UNCHANGED <<pkiVars, codecVars, cmdVars, extVars>>

\* fs::write, first half: File::create opens with O_CREAT | O_TRUNC. A new
\* file gets mode 0o666 & ~umask, an existing one keeps its mode.
save_write_create ==
    /\ key_pc = "create"
    /\ \/ /\ key_file' = [exists |-> TRUE, content |-> <<>>,
                          mode |-> IF key_file.exists THEN key_file.mode
                                   ELSE AndNot(DefaultCreateMode, umask)]
          /\ key_pc' = "write_all"
          /\ UNCHANGED klog
       \/ /\ KeyReturn(KeyErr("write"), key_file, key_reqs)
          /\ UNCHANGED key_file
    /\ UNCHANGED <<umask, key_kp, key_reqs, key_before>>
    /\ UNCHANGED <<pkiVars, codecVars, cmdVars, extVars>>

\* fs::write, second half: write_all, one write(2) per step, each writing
\* all that is left or only the first half of it; the step after the last
\* byte is the metadata call.
save_write_all ==
    /\ key_pc = "write_all"
    /\ LET encoded == EncodeKeyPair(key_kp)
           done == Len(key_file.content) IN
       \/ /\ done < Len(encoded)
          /\ \E n \in {done + (Len(encoded) - done + 1) \div 2, Len(encoded)} :
                key_file' = [key_file EXCEPT !.content = SubSeq(encoded, 1, n)]
          /\ UNCHANGED <<key_pc, klog>>
       \/ /\ done < Len(encoded)
          /\ KeyReturn(KeyErr("write"), key_file, key_reqs)
          /\ UNCHANGED key_file
       \/ /\ done = Len(encoded)
          /\ key_pc' = "set_permissions"
          /\ UNCHANGED <<key_file, klog>>
       \/ /\ done = Len(encoded)
          /\ KeyReturn(KeyErr("metadata"), key_file, key_reqs)
          /\ UNCHANGED key_file
    /\ UNCHANGED <<umask, key_kp, key_reqs, key_before>>
    /\ UNCHANGED <<pkiVars, codecVars, cmdVars, extVars>>

\* fs::set_permissions(path, 0o600), then Ok(()) and get_or_fetch's
\* Ok(keypair).
save_set_permissions ==
    /\ key_pc = "set_permissions"
    /\ \/ /\ key_file' = [key_file EXCEPT !.mode = KEYPAIR_FILE_MODE]
          /\ KeyReturn(KeyOk(key_kp), key_file', key_reqs)
       \/ /\ KeyReturn(KeyErr("set_permissions"), key_file, key_reqs)
          /\ UNCHANGED key_file
    /\ UNCHANGED <<umask, key_kp, key_reqs, key_before>>
    /\ UNCHANGED <<pkiVars, codecVars, cmdVars, extVars>>

\* The process stops in the middle of a call (a signal, a power cut).
ProcessStops ==
    /\ key_pc \notin {"idle"}
    /\ KeyReturn([tag |-> "Stopped"], key_file, key_reqs)
    /\ UNCHANGED <<key_file, umask, key_kp, key_reqs, key_before>>
    /\ UNCHANGED <<pkiVars, codecVars, cmdVars, extVars>>

\* The files the path can hold when the first call is made: none, files that
\* do not decode (empty, cut short, not UTF-8), a key pair saved earlier.
StoredKeyPair == [priv_key |-> <<10>>, pub_key |-> <<20>>, key_id |-> <<>>,
                  base_config |-> TheBaseConfig]
InitialKeyFiles ==
    {NoFile}
    \cup [exists : {TRUE}, mode : {KEYPAIR_FILE_MODE, 420},
          content : {<<>>, <<1, 10, 1>>, <<1, 255, 0, 0, 0, 0, 0>>,
                     EncodeKeyPair(StoredKeyPair)}]

KeyStart ==
    /\ key_pc = "idle"
    /\ key_kp = NoKeyPair
    /\ key_reqs = 0
    /\ key_before = key_file
    /\ klog = <<>>

KeyIdle ==
    /\ key_file = NoFile
    /\ umask = 18
    /\ KeyStart

NextKey ==
    \/ get_or_fetch
    \/ fetch_from_pki
    \/ save_create_dir_all
    \/ save_write_create
    \/ save_write_all
    \/ save_set_permissions
    \/ ProcessStops

(***************************************************************************)
(*                       Bytes, integers, digests                          *)
(*                                                                         *)
(* A byte of a file is a cell: <<b>> with b in 0..255 is the byte b; any   *)
(* other cell stands for the bytes of a cryptographic value (a SHA-256     *)
(* digest, a CMS signature, a PKI signature) and carries what the value    *)
(* was computed from, so that two such values are equal exactly when they  *)
(* were computed from the same input.                                      *)
(***************************************************************************)
\* The first number of a cell that is not a byte:
\*   digest       SHA-256 of the input that follows
\*   hex          the two hex digits of the byte cell that follows
\*   cert         an X.509 certificate: subject key, issuer
\*   cms_content  the content enclosed in a CMS structure
\*   cms_sig      a CMS signer's signature: key, signed content
\*   pki_sig      a signature issued by the PKI platform: key, digest
\*   len          len + n opens a cell of n numbers inside an input
Tag ==
    [digest |-> 256, hex |-> 257, cert |-> 258, cms_content |-> 259, cms_sig |-> 260,
     pki_sig |-> 261, len |-> 300]

IsByte(c) == Len(c) = 1 /\ c[1] < 256
Byte(b) == <<b>>
Cells(bytes) == [i \in 1..Len(bytes) |-> <<bytes[i]>>]
Zeros(n) == [i \in 1..n |-> <<0>>]

\* The numeric value of a byte; a byte of a cryptographic value reads as 255.
ByteOf(c) == IF IsByte(c) THEN c[1] ELSE 255

\* bin[a..b) with the offsets of the code (from 0).
Slice(bin, a, b) == SubSeq(bin, a + 1, b)

\* A sequence of cells as one sequence of numbers, one to one.
RECURSIVE Flatten(_)
Flatten(cells) ==
    IF cells = <<>> THEN <<>>
    ELSE IF Len(cells) = 1
    THEN (IF IsByte(cells[1]) THEN cells[1] ELSE <<Tag.len + Len(cells[1])>> \o cells[1])
    ELSE LET half == Len(cells) \div 2 IN
         Flatten(SubSeq(cells, 1, half)) \o Flatten(SubSeq(cells, half + 1, Len(cells)))

RECURSIVE Unflatten(_)
Unflatten(nums) ==
    IF nums = <<>> THEN <<>>
    ELSE IF nums[1] < 256 THEN <<<<nums[1]>>>> \o Unflatten(Tail(nums))
    ELSE LET n == nums[1] - Tag.len IN
         <<SubSeq(nums, 2, n + 1)>> \o Unflatten(SubSeq(nums, n + 2, Len(nums)))

\* u32::to_le_bytes
U32(n) == <<<<n % 256>>, <<(n \div 256) % 256>>, <<(n \div 65536) % 256>>,
            <<(n \div 16777216) % 256>>>>

\* u32::from_le_bytes of bin[off..off+4); values of 2^29 and more read as
\* 2^29, which is beyond every length and offset of the model.
ReadU32(bin, off) ==
    LET b0 == ByteOf(bin[off + 1])
        b1 == ByteOf(bin[off + 2])
        b2 == ByteOf(bin[off + 3])
        b3 == ByteOf(bin[off + 4]) IN
    IF b3 >= 32 THEN 536870912
    ELSE b0 + (256 * b1) + (65536 * b2) + (16777216 * b3)

FINGERPRINT_LEN == 32

\* PKCS::gen_digest_256: SHA-256, 32 bytes, free of collisions.
gen_digest_256(bin) == <<<<Tag.digest>> \o Flatten(bin)>> \o Zeros(FINGERPRINT_LEN - 1)

\* digest_to_hex_string: two lower-case hex digits per byte.
HexDigit(d) == IF d < 10 THEN 48 + d ELSE 87 + d
HexOf(c) ==
    IF IsByte(c) THEN <<<<HexDigit(c[1] \div 16)>>, <<HexDigit(c[1] % 16)>>>>
    ELSE <<<<Tag.hex>> \o c>>
RECURSIVE digest_to_hex_string(_)
digest_to_hex_string(digest) ==
    IF digest = <<>> THEN <<>>
    ELSE IF Len(digest) = 1 THEN HexOf(digest[1])
    ELSE LET half == Len(digest) \div 2 IN
         digest_to_hex_string(SubSeq(digest, 1, half))
         \o digest_to_hex_string(SubSeq(digest, half + 1, Len(digest)))

(***************************************************************************)
(*             Results, the local signer (utils/pkcs.rs)                   *)
(*                                                                         *)
(* A PEM file is the sequence of what it holds: a certificate is           *)
(* <<key, issuer>>, a private key <<key>>, a root CA <<issuer>>; anything  *)
(* of another length does not parse.                                       *)
(***************************************************************************)
Ok(v) == [tag |-> "Ok", val |-> v]
Err(kind, msg) == [tag |-> "Err", kind |-> kind, msg |-> msg]

\* PKCS::new()
PKCS_new == [cert_bin |-> <<>>, pkey_bin |-> <<>>, root_ca_bins |-> <<>>]

RootsParse(root_ca_bins) == \A i \in 1..Len(root_ca_bins) : Len(root_ca_bins[i]) = 1

\* PKCS::encode_pkcs_bin: a CMS structure with the signer's certificate, the
\* message and the signature of the message.
encode_pkcs_bin(pkcs, message) ==
    IF Len(pkcs.cert_bin) # 2 THEN Err("ParseError", "cert")
    ELSE IF Len(pkcs.pkey_bin) # 1 THEN Err("ParseError", "pkey")
    ELSE IF ~RootsParse(pkcs.root_ca_bins) THEN Err("ParseError", "root ca")
    ELSE IF pkcs.pkey_bin[1] # pkcs.cert_bin[1] THEN Err("SignatureError", "PKCS7 sign")
    ELSE Ok(<<<<Tag.cert>> \o pkcs.cert_bin,
              <<Tag.cms_content>> \o Flatten(message),
              <<Tag.cms_sig, pkcs.pkey_bin[1]>> \o Flatten(message)>>)

\* Pkcs7::from_smime succeeds on signed_bin.
IsSmime(signed_bin) ==
    /\ Len(signed_bin) = 3
    /\ Len(signed_bin[1]) = 3 /\ signed_bin[1][1] = Tag.cert
    /\ signed_bin[2][1] = Tag.cms_content
    /\ Len(signed_bin[3]) >= 2 /\ signed_bin[3][1] = Tag.cms_sig

\* PKCS::decode_pkcs_bin: the signature is the signer's over the enclosed
\* content and the signer's certificate chains to one of the roots; the
\* enclosed content is returned.
decode_pkcs_bin(signed_bin, root_ca_bins) ==
    IF ~RootsParse(root_ca_bins) THEN Err("ParseError", "root ca")
    ELSE IF ~IsSmime(signed_bin) THEN Err("ParseError", "S/MIME")
    ELSE LET cert == signed_bin[1]
             content == Tail(signed_bin[2]) IN
         IF /\ signed_bin[3] = <<Tag.cms_sig, cert[2]>> \o content
            /\ \E i \in 1..Len(root_ca_bins) : root_ca_bins[i] = <<cert[3]>>
         THEN Ok(Unflatten(content))
         ELSE Err("SignatureError", "PKCS7 verify")

(***************************************************************************)
(*        NetworkSignature and the PKI platform (network.rs)               *)
(***************************************************************************)
\* A String of the signature record is a sequence of cells; an Option is
\* <<>> (None) or <<s>> (Some(s)).
IsUtf8Cells(cs) == \A i \in 1..Len(cs) : ~IsByte(cs[i]) \/ cs[i][1] < 128

EncodeCellString(cs) == <<Byte(Len(cs))>> \o cs
EncodeCellOption(o) == IF o = <<>> THEN <<Byte(0)>> ELSE <<Byte(1)>> \o EncodeCellString(o[1])

\* bincode::encode_to_vec of a NetworkSignature: fields in declaration order.
EncodeNetworkSignature(ns) ==
    EncodeCellString(ns.pub_key) \o EncodeCellString(ns.signature)
    \o EncodeCellString(ns.algo) \o EncodeCellString(ns.flow)
    \o EncodeCellOption(ns.kms) \o EncodeCellOption(ns.key_id)

DecodeCellString(bin, pos) ==
    IF pos > Len(bin) \/ ~IsByte(bin[pos]) THEN [ok |-> FALSE, v |-> <<>>, next |-> pos]
    ELSE LET n == bin[pos][1] IN
         IF pos + n > Len(bin) \/ ~IsUtf8Cells(SubSeq(bin, pos + 1, pos + n))
         THEN [ok |-> FALSE, v |-> <<>>, next |-> pos]
         ELSE [ok |-> TRUE, v |-> SubSeq(bin, pos + 1, pos + n), next |-> pos + n + 1]

DecodeCellOption(bin, pos) ==
    IF pos > Len(bin) \/ ~IsByte(bin[pos]) \/ ByteOf(bin[pos]) > 1
    THEN [ok |-> FALSE, v |-> <<>>, next |-> pos]
    ELSE IF bin[pos][1] = 0 THEN [ok |-> TRUE, v |-> <<>>, next |-> pos + 1]
    ELSE LET s == DecodeCellString(bin, pos + 1) IN
         [ok |-> s.ok, v |-> <<s.v>>, next |-> s.next]

\* Decoding the fields of a record one after the other from position pos;
\* kinds names each field, "String" or "Option".
PrependField(v, rest) == [ok |-> rest.ok, vals |-> <<v>> \o rest.vals, next |-> rest.next]

RECURSIVE DecodeFields(_, _, _)
FieldsAfter(bin, kinds, f) ==
    IF ~f.ok THEN [ok |-> FALSE, vals |-> <<>>, next |-> f.next]
    ELSE PrependField(f.v, DecodeFields(bin, f.next, Tail(kinds)))

DecodeFields(bin, pos, kinds) ==
    IF kinds = <<>> THEN [ok |-> TRUE, vals |-> <<>>, next |-> pos]
    ELSE FieldsAfter(bin, kinds, IF Head(kinds) = "String" THEN DecodeCellString(bin, pos)
                                 ELSE DecodeCellOption(bin, pos))

NetworkSignatureOf(d) ==
    IF d.ok
    THEN Ok([pub_key |-> d.vals[1], signature |-> d.vals[2], algo |-> d.vals[3],
             flow |-> d.vals[4], kms |-> d.vals[5], key_id |-> d.vals[6]])
    ELSE Err("DecodeError", "network signature")

\* bincode::decode_from_slice::<NetworkSignature>: bytes after the value are
\* ignored.
DecodeNetworkSignature(bin) ==
    NetworkSignatureOf(DecodeFields(bin, 1, <<"String", "String", "String", "String",
                                              "Option", "Option">>))

\* The platform's key pairs: the private key of a public key (KeyPairReplies).
PrivOf(pub_key) == [i \in 1..Len(pub_key) |-> <<ByteOf(pub_key[i]) - 10>>]

\* The signature the platform issues for a digest under a private key.
PlatformSignature(priv_key, digest) ==
    <<<<Tag.pki_sig>> \o Flatten(priv_key) \o Flatten(digest)>>

\* What the platform answers to each request of a call, by its condition:
\* "up" (it serves the request), "down" (no connection), "error" (HTTP 500).
PlatformSignOutcome(mode) ==
    CASE mode = "up" -> Response(200, "good")
      [] mode = "error" -> Response(500, "bad")
      [] OTHER -> ErrConnect

PlatformVerifyOutcome(mode, pub_key, digest, signature) ==
    CASE mode = "up" -> IF signature = PlatformSignature(PrivOf(pub_key), digest)
                        THEN Response(200, "good") ELSE Response(200, "notok")
      [] mode = "error" -> Response(500, "bad")
      [] OTHER -> ErrConnect

(***************************************************************************)
(*                    StringTable (utils/context.rs)                       *)
(*                                                                         *)
(* A String of the package context is the sequence of its bytes; the two   *)
(* hash maps are functions.                                                *)
(***************************************************************************)
STRING_LENGTH_PREFIX_BYTES == 4

insert_str_nodedup(tbl, st) ==
    [tbl |-> [str2off |-> (st :> tbl.total_bytes) @@ tbl.str2off,
              off2str |-> (tbl.total_bytes :> st) @@ tbl.off2str,
              total_bytes |-> tbl.total_bytes + STRING_LENGTH_PREFIX_BYTES + Len(st)],
     off |-> tbl.total_bytes]
insert_str_noPrefix(tbl, st) ==
    IF st \in DOMAIN tbl.str2off
    THEN [tbl |-> tbl, off |-> tbl.str2off[st]]
    ELSE [tbl |-> [str2off |-> (st :> tbl.total_bytes) @@ tbl.str2off,
                   off2str |-> (tbl.total_bytes :> st) @@ tbl.off2str,
                   total_bytes |-> tbl.total_bytes + Len(st)],
          off |-> tbl.total_bytes]
\* StringTable::insert_str: the table after the call and the offset returned.
insert_str(tbl, st) ==
    IF st \in DOMAIN tbl.str2off
    THEN [tbl |-> tbl, off |-> tbl.str2off[st]]
    ELSE [tbl |-> [str2off |-> (st :> tbl.total_bytes) @@ tbl.str2off,
                   off2str |-> (tbl.total_bytes :> st) @@ tbl.off2str,
                   total_bytes |-> tbl.total_bytes + STRING_LENGTH_PREFIX_BYTES + Len(st)],
          off |-> tbl.total_bytes]

\* StringTable::new: the empty table with "" inserted.
StringTable_new ==
    [str2off |-> (<<>> :> 0), off2str |-> (0 :> <<>>),
     total_bytes |-> STRING_LENGTH_PREFIX_BYTES]

\* StringTable::off_by_str
off_by_str(tbl, st) ==
    IF st \in DOMAIN tbl.str2off THEN Ok(tbl.str2off[st])
    ELSE Err("Other", "string not in string table")

\* StringTable::str_by_off
str_by_off(tbl, off) ==
    IF off \in DOMAIN tbl.off2str THEN Ok(tbl.off2str[off])
    ELSE Err("Other", "offset not in string table")

\* StringTable::to_bytes: the entries by ascending offset, each with its
\* length before it.
RECURSIVE EntriesFrom(_, _)
EntriesFrom(tbl, offs) ==
    IF offs = {} THEN <<>>
    ELSE LET off == CHOOSE o \in offs : \A p \in offs : o <= p
             st == tbl.off2str[off] IN
         U32(Len(st)) \o Cells(st) \o EntriesFrom(tbl, offs \ {off})

to_bytes(tbl) == EntriesFrom(tbl, DOMAIN tbl.off2str)

\* StringTable::read_bytes, the loop from position i on: the result and the
\* table after the call, which keeps the entries read before a failure.
RECURSIVE read_bytes_from(_, _, _)
read_bytes_from(tbl, bytes, i) ==
    IF ~(i < Len(bytes)) THEN [res |-> Ok(<<>>), self |-> tbl]
    ELSE IF i + STRING_LENGTH_PREFIX_BYTES > Len(bytes)
    THEN [res |-> Err("DecodeError", "string table incomplete"), self |-> tbl]
    ELSE LET len == ReadU32(bytes, i) IN
         IF i + STRING_LENGTH_PREFIX_BYTES + len > Len(bytes)
         THEN [res |-> Err("DecodeError", "string table incomplete"), self |-> tbl]
         ELSE LET raw == Slice(bytes, i + STRING_LENGTH_PREFIX_BYTES,
                               i + STRING_LENGTH_PREFIX_BYTES + len)
                  st == [k \in 1..Len(raw) |-> ByteOf(raw[k])] IN
              IF ~IsUtf8(st) THEN [res |-> Err("DecodeError", "UTF-8"), self |-> tbl]
              ELSE read_bytes_from(
                       [str2off |-> (st :> i) @@ tbl.str2off,
                        off2str |-> (i :> st) @@ tbl.off2str,
                        total_bytes |-> i + STRING_LENGTH_PREFIX_BYTES + len],
                       bytes, i + STRING_LENGTH_PREFIX_BYTES + len)

read_bytes(tbl, bytes) == read_bytes_from(tbl, bytes, 0)

(***************************************************************************)
(*        PackageInfo, DepInfo, SrcTypePath (utils/context.rs)             *)
(***************************************************************************)
PackageInfo_default == [name |-> <<>>, version |-> <<>>, license |-> <<>>, authors |-> <<>>]

CratesIo == [kind |-> "CratesIo", path |-> <<>>]
SrcWithPath(kind, path) == [kind |-> kind, path |-> path]

\* "default" as bytes
DefaultStr == <<100, 101, 102, 97, 117, 108, 116>>
DepInfo_default ==
    [name |-> <<>>, ver_req |-> DefaultStr, src |-> CratesIo,
     src_platform |-> DefaultStr, dump |-> TRUE]

\* SrcTypePath::as_u8
as_u8(src) ==
    CASE src.kind = "CratesIo" -> 0
      [] src.kind = "Git" -> 1
      [] src.kind = "Url" -> 2
      [] src.kind = "Registry" -> 3
      [] OTHER -> 4

\* SrcTypePath::from_u8_with_path
from_u8_with_path_noPath(value, path) ==
    IF value <= 4 THEN Ok(CratesIo) ELSE Err("ParseError", "invalid source type")
from_u8_with_path(value, path) ==
    CASE value = 0 -> Ok(CratesIo)
      [] value = 1 -> Ok(SrcWithPath("Git", path))
      [] value = 2 -> Ok(SrcWithPath("Url", path))
      [] value = 3 -> Ok(SrcWithPath("Registry", path))
      [] value = 4 -> Ok(SrcWithPath("P2p", path))
      [] OTHER -> Err("ParseError", "invalid source type")

\* Inserting strings one after the other: the table and the offsets.
RECURSIVE InsertAll(_, _)
InsertAll(tbl, strs) ==
    IF strs = <<>> THEN [tbl |-> tbl, offs |-> <<>>]
    ELSE LET h == insert_str(tbl, Head(strs))
             t == InsertAll(h.tbl, Tail(strs)) IN
         [tbl |-> t.tbl, offs |-> <<h.off>> \o t.offs]

\* PackageInfo::write_to_package_section: the section and the table after.
write_to_package_section(info, tbl) ==
    LET r == InsertAll(tbl, <<info.name, info.version, info.license>> \o info.authors) IN
    [ps |-> [pkg_name |-> r.offs[1], pkg_version |-> r.offs[2], pkg_license |-> r.offs[3],
             pkg_authors |-> SubSeq(r.offs, 4, Len(r.offs))],
     tbl |-> r.tbl]

\* The loop over authors_off: each author read is pushed onto self.authors.
RECURSIVE ReadAuthors(_, _, _)
ReadAuthors(self, offs, tbl) ==
    IF offs = <<>> THEN [res |-> Ok(TRUE), self |-> self]
    ELSE LET a == str_by_off(tbl, Head(offs)) IN
         IF a.tag = "Err" THEN [res |-> a, self |-> self]
         ELSE ReadAuthors([self EXCEPT !.authors = Append(@, a.val)], Tail(offs), tbl)

\* PackageInfo::read_from_package_section: the result and self after the
\* call (fields assigned before a failing lookup stay assigned).
read_from_package_section(self, ps, tbl) ==
    LET n == str_by_off(tbl, ps.pkg_name) IN
    IF n.tag = "Err" THEN [res |-> n, self |-> self]
    ELSE LET s1 == [self EXCEPT !.name = n.val]
             v == str_by_off(tbl, ps.pkg_version) IN
    IF v.tag = "Err" THEN [res |-> v, self |-> s1]
    ELSE LET s2 == [s1 EXCEPT !.version = v.val]
             l == str_by_off(tbl, ps.pkg_license) IN
    IF l.tag = "Err" THEN [res |-> l, self |-> s2]
    ELSE ReadAuthors([s2 EXCEPT !.license = l.val], ps.pkg_authors, tbl)

\* DepInfo::write_to_dep_table_entry
write_to_dep_table_entry(dep, tbl) ==
    LET r == InsertAll(tbl, <<dep.name, dep.ver_req, dep.src.path, dep.src_platform>>) IN
    [dte |-> [dep_name |-> r.offs[1], dep_verreq |-> r.offs[2],
              dep_srctype |-> as_u8(dep.src), dep_srcpath |-> r.offs[3],
              dep_platform |-> r.offs[4]],
     tbl |-> r.tbl]

\* DepInfo::read_from_dep_table_entry on DepInfo::default()
read_from_dep_table_entry(dte, tbl) ==
    LET n == str_by_off(tbl, dte.dep_name) IN
    IF n.tag = "Err" THEN n
    ELSE LET v == str_by_off(tbl, dte.dep_verreq) IN
    IF v.tag = "Err" THEN v
    ELSE LET p == str_by_off(tbl, dte.dep_srcpath) IN
    IF p.tag = "Err" THEN p
    ELSE LET s == from_u8_with_path(dte.dep_srctype, p.val) IN
    IF s.tag = "Err" THEN s
    ELSE LET f == str_by_off(tbl, dte.dep_platform) IN
    IF f.tag = "Err" THEN f
    ELSE Ok([name |-> n.val, ver_req |-> v.val, src |-> s.val,
             src_platform |-> f.val, dump |-> TRUE])

(***************************************************************************)
(*          The container layout (utils/package.rs, after spec.md)         *)
(*                                                                         *)
(* Header: magic, version, then si_offset, si_size, ds_offset, ds_size,    *)
(* strtable_offset, strtable_size as u32. Section index: entries of three  *)
(* u32 {type, offset, size}, offsets from the start of the file. Then the  *)
(* data sections, the string table and the fingerprint.                    *)
(***************************************************************************)
MAGIC_NUMBER == <<67, 82, 65, 84, 69>>
CRATEVERSION == 0
HEADER_LEN == 30
SECTION_ENTRY_LEN == 12
SIG_HEADER_LEN == 12

\* DATASECTIONTYPE and SIGTYPE (utils/context.rs)
PACK == 0
DEPTABLE == 1
CRATEBIN == 3
SIGSTRUCTURE == 4
SIGTYPE_FILE == 0
SIGTYPE_CRATEBIN == 1
SIGTYPE_NETWORK == 2
NOT_SIG_NUM == 3

\* The space reserved for the signature of a SIGSTRUCTURE section.
MAX_LOCAL_SIG_SIZE == 4
MAX_NETWORK_SIG_SIZE == 16
MAX_SIG_SIZE(typ) == IF typ = SIGTYPE_NETWORK THEN MAX_NETWORK_SIG_SIZE ELSE MAX_LOCAL_SIG_SIZE

RECURSIVE ConcatAll(_)
ConcatAll(seqs) == IF seqs = <<>> THEN <<>> ELSE Head(seqs) \o ConcatAll(Tail(seqs))

RECURSIVE SumOf(_)
SumOf(nums) == IF nums = <<>> THEN 0 ELSE Head(nums) + SumOf(Tail(nums))

HeaderBytes(h) ==
    Cells(MAGIC_NUMBER) \o <<Byte(h.c_version)>>
    \o U32(h.si_offset) \o U32(h.si_size) \o U32(h.ds_offset) \o U32(h.ds_size)
    \o U32(h.strtable_offset) \o U32(h.strtable_size)

SectionIndexBytes(entries) ==
    ConcatAll([i \in 1..Len(entries) |->
                  U32(entries[i].sh_type) \o U32(entries[i].sh_offset) \o U32(entries[i].sh_size)])

PackageSectionBytes(ps) ==
    U32(ps.pkg_name) \o U32(ps.pkg_version) \o U32(ps.pkg_license)
    \o U32(Len(ps.pkg_authors))
    \o ConcatAll([i \in 1..Len(ps.pkg_authors) |-> U32(ps.pkg_authors[i])])

DEP_ENTRY_LEN == 17
DepTableEntryBytes(dte) ==
    U32(dte.dep_name) \o U32(dte.dep_verreq) \o <<Byte(dte.dep_srctype)>>
    \o U32(dte.dep_srcpath) \o U32(dte.dep_platform)

DepTableSectionBytes(entries) ==
    U32(Len(entries)) \o ConcatAll([i \in 1..Len(entries) |-> DepTableEntryBytes(entries[i])])

CrateBinarySectionBytes(bin) == U32(Len(bin)) \o bin

\* A SIGSTRUCTURE section: type, size, the signature as a raw array, zeros
\* up to the space reserved.
SigStructureSectionBytes(typ, size, sig) ==
    U32(typ) \o U32(size) \o U32(Len(sig)) \o sig \o Zeros(MAX_SIG_SIZE(typ) - Len(sig))

\* SectionIndex::sig_num, none_sig_size, datasection_size_without_sig
NonSigEntries(si) == {i \in 1..Len(si.entries) : si.entries[i].sh_type # SIGSTRUCTURE}
sig_num(si) == Len(si.entries) - Cardinality(NonSigEntries(si))
none_sig_size(si) == SECTION_ENTRY_LEN * Cardinality(NonSigEntries(si))
datasection_size_without_sig(si) ==
    SumOf([i \in 1..Len(si.entries) |->
              IF si.entries[i].sh_type # SIGSTRUCTURE THEN si.entries[i].sh_size ELSE 0])

\* Decoding one data section from bin[off..end).
DecodeDataSection(bin, typ, off, end) ==
    CASE typ = PACK ->
           IF off + 16 > end THEN Err("DecodeError", "short read")
           ELSE LET n == ReadU32(bin, off + 12) IN
                IF n > end \/ off + 16 + (4 * n) > end
                THEN Err("DecodeError", "bad array length")
                ELSE Ok([kind |-> "PackageSection",
                         pkg_name |-> ReadU32(bin, off),
                         pkg_version |-> ReadU32(bin, off + 4),
                         pkg_license |-> ReadU32(bin, off + 8),
                         pkg_authors |-> [i \in 1..n |-> ReadU32(bin, off + 12 + (4 * i))]])
      [] typ = DEPTABLE ->
           IF off + 4 > end THEN Err("DecodeError", "short read")
           ELSE LET n == ReadU32(bin, off) IN
                IF n > end \/ off + 4 + (DEP_ENTRY_LEN * n) > end
                THEN Err("DecodeError", "bad array length")
                ELSE Ok([kind |-> "DepTableSection",
                         entries |-> [i \in 1..n |->
                             LET e == off + 4 + (DEP_ENTRY_LEN * (i - 1)) IN
                             [dep_name |-> ReadU32(bin, e),
                              dep_verreq |-> ReadU32(bin, e + 4),
                              dep_srctype |-> ByteOf(bin[e + 9]),
                              dep_srcpath |-> ReadU32(bin, e + 9),
                              dep_platform |-> ReadU32(bin, e + 13)]]])
      [] typ = CRATEBIN ->
           IF off + 4 > end THEN Err("DecodeError", "short read")
           ELSE LET n == ReadU32(bin, off) IN
                IF off + 4 + n > end THEN Err("DecodeError", "bad array length")
                ELSE Ok([kind |-> "CrateBinarySection", bin |-> Slice(bin, off + 4, off + 4 + n)])
      [] typ = SIGSTRUCTURE ->
           IF off + SIG_HEADER_LEN > end THEN Err("DecodeError", "short read")
           ELSE LET n == ReadU32(bin, off + 8) IN
                IF off + SIG_HEADER_LEN + n > end THEN Err("DecodeError", "bad array length")
                ELSE Ok([kind |-> "SigStructureSection",
                         sigstruct_type |-> ReadU32(bin, off),
                         sigstruct_size |-> ReadU32(bin, off + 4),
                         sigstruct_sig |-> Slice(bin, off + SIG_HEADER_LEN, off + SIG_HEADER_LEN + n)])
      [] OTHER -> Err("DecodeError", "unknown section type")

\* CratePackage::decode_from_slice: the header, the entries of the section
\* index, the data section of every entry, the string table.
ReadHeader(bin) ==
    [c_version |-> ByteOf(bin[6]),
     si_offset |-> ReadU32(bin, 6), si_size |-> ReadU32(bin, 10),
     ds_offset |-> ReadU32(bin, 14), ds_size |-> ReadU32(bin, 18),
     strtable_offset |-> ReadU32(bin, 22), strtable_size |-> ReadU32(bin, 26)]

ReadEntries(bin, h) ==
    [i \in 1..(h.si_size \div SECTION_ENTRY_LEN) |->
        [sh_type |-> ReadU32(bin, h.si_offset + (SECTION_ENTRY_LEN * (i - 1))),
         sh_offset |-> ReadU32(bin, h.si_offset + (SECTION_ENTRY_LEN * (i - 1)) + 4),
         sh_size |-> ReadU32(bin, h.si_offset + (SECTION_ENTRY_LEN * (i - 1)) + 8)]]

ReadSection(bin, entry, end) ==
    IF entry.sh_offset + entry.sh_size > end THEN Err("DecodeError", "short read")
    ELSE DecodeDataSection(bin, entry.sh_type, entry.sh_offset,
                           entry.sh_offset + entry.sh_size)

ReadSections(bin, entries, end) ==
    [i \in 1..Len(entries) |-> ReadSection(bin, entries[i], end)]

PackageOf(bin, h, entries, secs) ==
    IF \E i \in 1..Len(secs) : secs[i].tag = "Err"
    THEN secs[CHOOSE i \in 1..Len(secs) :
                 secs[i].tag = "Err" /\ \A j \in 1..(i - 1) : secs[j].tag = "Ok"]
    ELSE Ok([crate_header |-> h,
             section_index |-> [entries |-> entries],
             data_sections |-> [i \in 1..Len(secs) |-> secs[i].val],
             string_table |-> Slice(bin, h.strtable_offset,
                                    h.strtable_offset + h.strtable_size),
             fingerprint |-> Slice(bin, Len(bin) - FINGERPRINT_LEN, Len(bin))])

PackageWithHeader(bin, h) ==
    IF \/ h.si_offset + h.si_size > Len(bin) - FINGERPRINT_LEN
       \/ h.si_size % SECTION_ENTRY_LEN # 0
       \/ h.strtable_offset + h.strtable_size > Len(bin) - FINGERPRINT_LEN
    THEN Err("DecodeError", "short read")
    ELSE PackageOf(bin, h, ReadEntries(bin, h),
                   ReadSections(bin, ReadEntries(bin, h), Len(bin) - FINGERPRINT_LEN))

decode_from_slice(bin) ==
    IF Len(bin) < HEADER_LEN + FINGERPRINT_LEN THEN Err("DecodeError", "short read")
    ELSE IF Slice(bin, 0, 5) # Cells(MAGIC_NUMBER) THEN Err("DecodeError", "magic")
    ELSE PackageWithHeader(bin, ReadHeader(bin))

(***************************************************************************)
(*        PackageContext: building and decoding (utils/context.rs,         *)
(*        utils/decode.rs)                                                 *)
(***************************************************************************)
Panic(msg) == [tag |-> "Panic", msg |-> msg]

\* SigInfo::new()
SigInfo_new == [typ |-> 0, size |-> 0, bin |-> <<>>, pkcs |-> PKCS_new, pub_key |-> <<>>]

\* PackageContext::new(); an Option is <<>> (None) or <<v>> (Some(v)).
PackageContext_new ==
    [pack_info |-> PackageInfo_default, dep_infos |-> <<>>, crate_binary |-> <<>>,
     sigs |-> <<>>, root_cas |-> <<>>, network_client |-> <<>>, network_keypair |-> <<>>]

\* PackageContext::add_sig: the context after the call and the index returned.
add_sig(self, pkcs, sign_type) ==
    LET siginfo == [SigInfo_new EXCEPT !.pkcs = pkcs, !.typ = sign_type]
        sigs == Append(self.sigs, siginfo) IN
    [self |-> [self EXCEPT !.sigs = sigs], ret |-> Len(sigs) - 1]

binary_before_sig_whole(self, crate_package, bin) ==
    LET zero_begin == crate_package.crate_header.si_offset
                      + none_sig_size(crate_package.section_index)
        zero_end == crate_package.crate_header.si_offset + crate_package.crate_header.si_size IN
    Ok([i \in 1..Len(bin) |-> IF i > zero_begin /\ i <= zero_end THEN <<0>> ELSE bin[i]])
\* PackageContext::binary_before_sig: the file up to the end of the data
\* sections that are not signatures, with the signature entries of the
\* section index set to zero.
binary_before_sig(self, crate_package, bin) ==
    LET ds_size == datasection_size_without_sig(crate_package.section_index)
        total_size == crate_package.crate_header.ds_offset + ds_size
        zero_begin == crate_package.crate_header.si_offset
                      + none_sig_size(crate_package.section_index)
        zero_end == crate_package.crate_header.si_offset + crate_package.crate_header.si_size IN
    IF /\ sig_num(crate_package.section_index) # Len(self.sigs)
       /\ self.sigs # <<>>
       /\ sig_num(crate_package.section_index) # 0
    THEN Panic("assert_eq")
    ELSE IF total_size > Len(bin) THEN Panic("slice index")
    ELSE Ok([i \in 1..total_size |->
                IF i > zero_begin /\ i <= zero_end THEN <<0>> ELSE bin[i]])

\* SectionIndex::section_id_by_type: the first entry of the type (from 0).
section_id_by_type(si, typ) ==
    IF \E i \in 1..Len(si.entries) : si.entries[i].sh_type = typ
    THEN Ok((CHOOSE i \in 1..Len(si.entries) :
                /\ si.entries[i].sh_type = typ
                /\ \A j \in 1..(i - 1) : si.entries[j].sh_type # typ) - 1)
    ELSE Err("DecodeError", "no section of the type")

\* CratePackage::data_section_by_type, then the match on the section found.
SectionOfKind(crate_package, typ, kind) ==
    LET id == section_id_by_type(crate_package.section_index, typ) IN
    IF id.tag = "Err" THEN id
    ELSE IF crate_package.data_sections[id.val + 1].kind = kind
         THEN Ok(crate_package.data_sections[id.val + 1])
         ELSE Err("DecodeError", "section not found")

package_section(crate_package) == SectionOfKind(crate_package, PACK, "PackageSection")
dep_table_section(crate_package) == SectionOfKind(crate_package, DEPTABLE, "DepTableSection")
crate_binary_section(crate_package) == SectionOfKind(crate_package, CRATEBIN, "CrateBinarySection")

\* CratePackage::sig_structure_section: the section number `no` after the
\* first SIGSTRUCTURE entry.
sig_structure_section_base(crate_package, no) ==
    LET base == section_id_by_type(crate_package.section_index, SIGSTRUCTURE) IN
    IF base.tag = "Err" THEN base
    ELSE IF crate_package.data_sections[base.val + 1].kind = "SigStructureSection"
         THEN Ok(crate_package.data_sections[base.val + 1])
         ELSE Err("DecodeError", "sig structure section not found")
sig_structure_section(crate_package, no) ==
    LET base == section_id_by_type(crate_package.section_index, SIGSTRUCTURE) IN
    IF base.tag = "Err" THEN base
    ELSE IF no + base.val + 1 > Len(crate_package.data_sections) THEN Panic("index out of bounds")
    ELSE IF crate_package.data_sections[no + base.val + 1].kind = "SigStructureSection"
         THEN Ok(crate_package.data_sections[no + base.val + 1])
         ELSE Err("DecodeError", "sig structure section not found")

\* SigInfo::read_from_sig_structure_section on SigInfo::new()
read_from_sig_structure_section(sig) ==
    LET self == [SigInfo_new EXCEPT !.typ = sig.sigstruct_type, !.size = sig.sigstruct_size] IN
    IF self.typ = SIGTYPE_NETWORK
    THEN LET ns == DecodeNetworkSignature(sig.sigstruct_sig) IN
         IF ns.tag = "Err" THEN ns
         ELSE Ok([self EXCEPT !.bin = sig.sigstruct_sig, !.pub_key = <<ns.val.pub_key>>])
    ELSE Ok([self EXCEPT !.bin = sig.sigstruct_sig])

\* PackageContext::deps, the loop from entry i on: the result and dep_infos.
RECURSIVE deps_from(_, _, _, _)
deps_from(dep_infos, entries, i, tbl) ==
    IF i > Len(entries) THEN [res |-> Ok(TRUE), dep_infos |-> dep_infos]
    ELSE LET d == read_from_dep_table_entry(entries[i], tbl) IN
         IF d.tag = "Err" THEN [res |-> d, dep_infos |-> dep_infos]
         ELSE deps_from(Append(dep_infos, d.val), entries, i + 1, tbl)

RECURSIVE sigs_from_replaced(_, _, _, _)
sigs_from_replaced(sigs, crate_package, no, num) ==
    LET kept == IF no = 0 THEN <<>> ELSE sigs IN
    IF ~(no < num) THEN [res |-> Ok(TRUE), sigs |-> kept]
    ELSE LET sec == sig_structure_section(crate_package, no) IN
         IF sec.tag # "Ok" THEN [res |-> sec, sigs |-> kept]
         ELSE LET info == read_from_sig_structure_section(sec.val) IN
              IF info.tag = "Err" THEN [res |-> info, sigs |-> kept]
              ELSE sigs_from_replaced(Append(kept, info.val), crate_package, no + 1, num)
\* PackageContext::sigs, the loop from number `no` on: the result and sigs.
RECURSIVE sigs_from(_, _, _, _)
sigs_from(sigs, crate_package, no, num) ==
    IF ~(no < num) THEN [res |-> Ok(TRUE), sigs |-> sigs]
    ELSE LET sec == sig_structure_section(crate_package, no) IN
         IF sec.tag # "Ok" THEN [res |-> sec, sigs |-> sigs]
         ELSE LET info == read_from_sig_structure_section(sec.val) IN
              IF info.tag = "Err" THEN [res |-> info, sigs |-> sigs]
              ELSE sigs_from(Append(sigs, info.val), crate_package, no + 1, num)

\* PackageContext::check_fingerprint
check_fingerprint(bin_all) ==
    IF Len(bin_all) < FINGERPRINT_LEN THEN Panic("slice index")
    ELSE Ok(gen_digest_256(Slice(bin_all, 0, Len(bin_all) - FINGERPRINT_LEN))
            = Slice(bin_all, Len(bin_all) - FINGERPRINT_LEN, Len(bin_all)))

\* PackageContext::check_sigs, the loop from signature i on; bin_all is the
\* result of binary_before_sig. Returns the result and the signatures whose
\* verification was called.
RECURSIVE check_sigs_from(_, _, _, _, _)
check_sigs_from(self, i, bin_all, bin_crate, mode) ==
    IF i > Len(self.sigs) THEN [res |-> Ok(TRUE), verified |-> <<>>]
    ELSE
    LET siginfo == self.sigs[i]
        rest == check_sigs_from(self, i + 1, bin_all, bin_crate, mode)
        continue == [res |-> rest.res, verified |-> <<i>> \o rest.verified] IN
    IF siginfo.typ = SIGTYPE_FILE \/ siginfo.typ = SIGTYPE_CRATEBIN
    THEN LET actual_digest == IF siginfo.typ = SIGTYPE_FILE THEN gen_digest_256(bin_all)
                              ELSE gen_digest_256(bin_crate)
             expect_digest == decode_pkcs_bin(siginfo.bin, self.root_cas) IN
         IF expect_digest.tag = "Err" THEN [res |-> expect_digest, verified |-> <<i>>]
         ELSE IF actual_digest # expect_digest.val
         THEN [res |-> Err("SignatureError", "local signature verification failed"),
               verified |-> <<i>>]
         ELSE continue
    ELSE IF siginfo.typ = SIGTYPE_NETWORK
    THEN IF self.network_client = <<>>
         THEN [res |-> Err("Other", "network_client not set"), verified |-> <<>>]
         ELSE
         LET network_sig == DecodeNetworkSignature(siginfo.bin) IN
         IF network_sig.tag = "Err" THEN [res |-> network_sig, verified |-> <<>>]
         ELSE
         LET actual_digest == gen_digest_256(bin_crate)
             digest_hex == digest_to_hex_string(actual_digest)
             r == CallReturn(PlatformVerifyOutcome(mode, network_sig.val.pub_key, digest_hex,
                                                   network_sig.val.signature), "verify") IN
         IF r.tag = "Ok"
         THEN IF r.why = "true" THEN continue
              ELSE [res |-> Err("SignatureError", "network signature verification failed"),
                    verified |-> <<i>>]
         ELSE [res |-> Err("PkiError", r.why), verified |-> <<i>>]
    ELSE [res |-> Err("Other", "unsupported signature type"), verified |-> <<>>]

check_sigs_over_signed(self, crate_package, mode, bin_all) ==
    IF bin_all.tag # "Ok" THEN [res |-> bin_all, verified |-> <<>>]
    ELSE LET bin_crate == crate_binary_section(crate_package) IN
         IF bin_crate.tag = "Err" THEN [res |-> bin_crate, verified |-> <<>>]
         ELSE IF self.sigs = <<>>
         THEN [res |-> Err("SignatureError", "no signature"), verified |-> <<>>]
         ELSE check_sigs_from(self, 1, bin_all.val, bin_crate.val.bin, mode)
\* PackageContext::check_sigs
check_sigs_over(self, crate_package, mode, bin_all) ==
    IF bin_all.tag # "Ok" THEN [res |-> bin_all, verified |-> <<>>]
    ELSE LET bin_crate == crate_binary_section(crate_package) IN
         IF bin_crate.tag = "Err" THEN [res |-> bin_crate, verified |-> <<>>]
         ELSE check_sigs_from(self, 1, bin_all.val, bin_crate.val.bin, mode)

check_sigs(self, crate_package, bin, mode) ==
    check_sigs_over(self, crate_package, mode, binary_before_sig(self, crate_package, bin))

\* PackageContext::decode_from_crate_package: the result, the context after
\* the call, the steps entered and the signatures whose verification was
\* called. mode is the condition of the PKI platform. Each step is an
\* operator that takes the value of the step before it; a step that fails
\* returns with the context as the steps before it left it.
DecodeSteps ==
    <<"check_fingerprint", "decode_from_slice", "read_bytes", "pack_info", "deps",
      "binary", "sigs", "check_sigs">>

DecodeStopped(res, self, steps) ==
    [res |-> res, self |-> self, log |-> SubSeq(DecodeSteps, 1, steps), verified |-> <<>>]

decode_check_sigs(self, cs) ==
    [res |-> cs.res, self |-> self, log |-> DecodeSteps, verified |-> cs.verified]

decode_sigs(self, crate_package, bin, mode, sg) ==
    IF sg.res.tag # "Ok" THEN DecodeStopped(sg.res, [self EXCEPT !.sigs = sg.sigs], 7)
    ELSE decode_check_sigs([self EXCEPT !.sigs = sg.sigs],
                           check_sigs([self EXCEPT !.sigs = sg.sigs], crate_package, bin, mode))

decode_binary(self, crate_package, bin, mode, cbs) ==
    IF cbs.tag = "Err" THEN DecodeStopped(cbs, self, 6)
    ELSE decode_sigs([self EXCEPT !.crate_binary = cbs.val.bin], crate_package, bin, mode,
                     sigs_from(self.sigs, crate_package, 0,
                               sig_num(crate_package.section_index)))

decode_deps_read(self, crate_package, bin, mode, ds) ==
    IF ds.res.tag = "Err"
    THEN DecodeStopped(ds.res, [self EXCEPT !.dep_infos = ds.dep_infos], 5)
    ELSE decode_binary([self EXCEPT !.dep_infos = ds.dep_infos], crate_package, bin, mode,
                       crate_binary_section(crate_package))

decode_deps(self, crate_package, bin, mode, str_table, dts) ==
    IF dts.tag = "Err" THEN DecodeStopped(dts, self, 5)
    ELSE decode_deps_read(self, crate_package, bin, mode,
                          deps_from(self.dep_infos, dts.val.entries, 1, str_table))

decode_pack_info_read(self, crate_package, bin, mode, str_table, pi) ==
    IF pi.res.tag = "Err"
    THEN DecodeStopped(pi.res, [self EXCEPT !.pack_info = pi.self], 4)
    ELSE decode_deps([self EXCEPT !.pack_info = pi.self], crate_package, bin, mode,
                     str_table, dep_table_section(crate_package))

decode_pack_info(self, crate_package, bin, mode, str_table, ps) ==
    IF ps.tag = "Err" THEN DecodeStopped(ps, self, 4)
    ELSE decode_pack_info_read(self, crate_package, bin, mode, str_table,
                               read_from_package_section(self.pack_info, ps.val, str_table))

decode_read_bytes(self, crate_package, bin, mode, str_table) ==
    IF str_table.res.tag = "Err" THEN DecodeStopped(str_table.res, self, 3)
    ELSE decode_pack_info(self, crate_package, bin, mode, str_table.self,
                          package_section(crate_package))

decode_package(self, bin, mode, cp) ==
    IF cp.tag = "Err" THEN DecodeStopped(Err("DecodeError", cp.msg), self, 2)
    ELSE decode_read_bytes(self, cp.val, bin, mode,
                           read_bytes(StringTable_new, cp.val.string_table))

decode_fingerprint_unchecked(self, bin, mode, fp) ==
    IF fp.tag # "Ok" THEN DecodeStopped(fp, self, 1)
    ELSE decode_package(self, bin, mode, decode_from_slice(bin))
decode_fingerprint(self, bin, mode, fp) ==
    IF fp.tag # "Ok" THEN DecodeStopped(fp, self, 1)
    ELSE IF ~fp.val
    THEN DecodeStopped(Err("DecodeError", "fingerprint not right"), self, 1)
    ELSE decode_package(self, bin, mode, decode_from_slice(bin))

decode_from_crate_package(self, bin, mode) ==
    decode_fingerprint(self, bin, mode, check_fingerprint(bin))

(***************************************************************************)
(*     PackageContext::encode_to_crate_package (utils/encode.rs, after     *)
(*     spec.md 4.4)                                                        *)
(***************************************************************************)
\* Step 1, the dependencies with dump = true: the entries and the table.
RECURSIVE WriteDeps(_, _)
WriteDeps(dep_infos, tbl) ==
    IF dep_infos = <<>> THEN [entries |-> <<>>, tbl |-> tbl]
    ELSE IF ~Head(dep_infos).dump THEN WriteDeps(Tail(dep_infos), tbl)
    ELSE LET h == write_to_dep_table_entry(Head(dep_infos), tbl)
             t == WriteDeps(Tail(dep_infos), h.tbl) IN
         [entries |-> <<h.dte>> \o t.entries, tbl |-> t.tbl]

\* Steps 2 and 3 over the bytes of the sections that are not signatures and
\* of the string table: the section index with the space of every signature
\* reserved, the header.
LayoutOf(self, packB, depB, binB, strB) ==
    LET n == Len(self.sigs)
        si_size == SECTION_ENTRY_LEN * (NOT_SIG_NUM + n)
        ds_offset == HEADER_LEN + si_size
        sigSize == [i \in 1..n |-> SIG_HEADER_LEN + MAX_SIG_SIZE(self.sigs[i].typ)]
        sigsAt == ds_offset + Len(packB) + Len(depB) + Len(binB)
        entries ==
            <<[sh_type |-> PACK, sh_offset |-> ds_offset, sh_size |-> Len(packB)],
              [sh_type |-> DEPTABLE, sh_offset |-> ds_offset + Len(packB), sh_size |-> Len(depB)],
              [sh_type |-> CRATEBIN, sh_offset |-> ds_offset + Len(packB) + Len(depB),
               sh_size |-> Len(binB)]>>
            \o [i \in 1..n |->
                   [sh_type |-> SIGSTRUCTURE,
                    sh_offset |-> sigsAt + SumOf(SubSeq(sigSize, 1, i - 1)),
                    sh_size |-> sigSize[i]]]
        ds_size == Len(packB) + Len(depB) + Len(binB) + SumOf(sigSize) IN
    [crate_header |-> [c_version |-> CRATEVERSION,
                       si_offset |-> HEADER_LEN, si_size |-> si_size,
                       ds_offset |-> ds_offset, ds_size |-> ds_size,
                       strtable_offset |-> ds_offset + ds_size, strtable_size |-> Len(strB)],
     section_index |-> [entries |-> entries],
     nonsig |-> packB \o depB \o binB,
     string_table |-> strB]

LayoutWithDeps(self, p, d) ==
    LayoutOf(self, PackageSectionBytes(p.ps), DepTableSectionBytes(d.entries),
             CrateBinarySectionBytes(self.crate_binary), to_bytes(d.tbl))

\* Steps 1 to 3: the sections that are not signatures, the string table,
\* the section index, the header.
EncodeLayout(self) ==
    LayoutWithDeps(self, write_to_package_section(self.pack_info, StringTable_new),
                   WriteDeps(self.dep_infos,
                             write_to_package_section(self.pack_info, StringTable_new).tbl))

\* Step 4 (and 8): the image without its fingerprint; blobs[i] is the
\* signature written in the i-th SIGSTRUCTURE section (none: empty).
EncodeImage(self, layout, blobs) ==
    HeaderBytes(layout.crate_header) \o SectionIndexBytes(layout.section_index.entries)
    \o layout.nonsig
    \o ConcatAll([i \in 1..Len(self.sigs) |->
                     SigStructureSectionBytes(self.sigs[i].typ, Len(blobs[i]), blobs[i])])
    \o layout.string_table

\* Step 7 for one signature: the blob of the signer over the digest.
SignOne(self, siginfo, digest, mode) ==
    IF siginfo.typ = SIGTYPE_FILE \/ siginfo.typ = SIGTYPE_CRATEBIN
    THEN encode_pkcs_bin(siginfo.pkcs, digest)
    ELSE IF self.network_client = <<>> \/ self.network_keypair = <<>>
    THEN Err("Other", "network_client or network_keypair not set")
    ELSE LET kp == self.network_keypair[1]
             r == CallReturn(PlatformSignOutcome(mode), "sign") IN
         IF r.tag = "Err" THEN Err("PkiError", r.why)
         ELSE Ok(EncodeNetworkSignature(
                  [pub_key |-> Cells(kp.pub_key),
                   signature |-> PlatformSignature(Cells(kp.priv_key),
                                                   digest_to_hex_string(digest)),
                   algo |-> Cells(kp.base_config.algo),
                   flow |-> Cells(kp.base_config.flow),
                   kms |-> IF kp.base_config.kms = <<>> THEN <<>>
                           ELSE <<Cells(kp.base_config.kms)>>,
                   key_id |-> IF kp.key_id = <<>> THEN <<>> ELSE <<Cells(kp.key_id)>>]))

\* Steps 6 to 8, the signatures from number i on, in the order of self.sigs:
\* the blobs, or the first failure, and the signatures produced.
RECURSIVE SignFrom(_, _, _, _, _)
SignNext(self, i, buf, bin_crate, mode, blob) ==
    IF blob.tag = "Err" THEN [res |-> blob, produced |-> <<>>]
    ELSE IF Len(blob.val) > MAX_SIG_SIZE(self.sigs[i].typ)
    THEN [res |-> Err("EncodeError", "signature overflow"), produced |-> <<i - 1>>]
    ELSE LET rest == SignFrom(self, i + 1, buf, bin_crate, mode) IN
         [res |-> IF rest.res.tag = "Err" THEN rest.res ELSE Ok(<<blob.val>> \o rest.res.val),
          produced |-> <<i - 1>> \o rest.produced]

SignFrom(self, i, buf, bin_crate, mode) ==
    IF i > Len(self.sigs) THEN [res |-> Ok(<<>>), produced |-> <<>>]
    ELSE SignNext(self, i, buf, bin_crate, mode,
                  SignOne(self, self.sigs[i],
                          IF self.sigs[i].typ = SIGTYPE_FILE THEN gen_digest_256(buf)
                          ELSE gen_digest_256(bin_crate),
                          mode))

\* Steps 8 and 9: the image with the signatures, the fingerprint after it.
EncodeSigned(self, layout, signed) ==
    IF signed.res.tag = "Err" THEN signed
    ELSE [res |-> Ok(EncodeImage(self, layout, signed.res.val)
                     \o gen_digest_256(EncodeImage(self, layout, signed.res.val))),
          produced |-> signed.produced]

EncodeWithLayout(self, mode, layout) ==
    EncodeSigned(self, layout,
                 SignFrom(self, 1,
                          binary_before_sig(self, layout,
                              EncodeImage(self, layout,
                                          [i \in 1..Len(self.sigs) |-> <<>>])).val,
                          self.crate_binary, mode))

\* encode_to_crate_package: the result (the bytes of the container) and the
\* signatures produced, by their index, in the order of their production.
encode_to_crate_package(self, mode) ==
    IF self.pack_info.name = <<>> \/ self.pack_info.version = <<>>
    THEN [res |-> Err("EncodeError", "missing required field"), produced |-> <<>>]
    ELSE EncodeWithLayout(self, mode, EncodeLayout(self))

(***************************************************************************)
(*       Building a context, encoding it, decoding the file                *)
(***************************************************************************)
\* The arguments the model passes to the builders.
PackInfoArgs ==
    {[name |-> <<97>>, version |-> <<49>>, license |-> <<>>, authors |-> <<>>],
     [name |-> <<97>>, version |-> <<49>>, license |-> <<97>>, authors |-> <<<<98>>, <<97>>>>]}

DepArgs ==
    {[name |-> <<116>>, ver_req |-> <<49>>, src |-> CratesIo, src_platform |-> <<>>],
     [name |-> <<117>>, ver_req |-> <<49>>, src |-> SrcWithPath("Git", <<103>>),
      src_platform |-> <<119>>]}

\* A dependency with an attribute that is not recognised (dump = false).
UndumpedDep ==
    [name |-> <<118>>, ver_req |-> <<50>>, src |-> SrcWithPath("Registry", <<114>>),
     src_platform |-> <<>>, dump |-> FALSE]

CrateBins == {<<<<5>>, <<6>>>>}

\* Signers: one whose certificate chains to the root CA <<7>>, and PKCS::new().
TrustedRoots == <<<<7>>>>
GoodSigner == [cert_bin |-> <<1, 7>>, pkey_bin |-> <<1>>, root_ca_bins |-> TrustedRoots]
SigArgs ==
    {<<GoodSigner, SIGTYPE_FILE>>, <<GoodSigner, SIGTYPE_CRATEBIN>>,
     <<PKCS_new, SIGTYPE_NETWORK>>, <<PKCS_new, SIGTYPE_CRATEBIN>>}

\* The key pair the platform issued (KeyPair::fetch_from_pki).
NetworkKeyPair ==
    KeyPairOf([kind |-> "ok", priv |-> <<11>>, pub |-> <<21>>, keyId |-> <<"Some", <<30>>>>])

\* The context that decodes: PackageContext::new() with the root CAs set
\* (unpack.rs) and the PKI client set (commands/decode.rs).
DecoderContext ==
    [PackageContext_new EXCEPT !.root_cas = TrustedRoots, !.network_client = <<"client">>]

NoOutFile == [exists |-> FALSE, content |-> <<>>]

NoTamper == [kind |-> "none", pos |-> 0, refingerprinted |-> FALSE]

\* PackageContext::set_package_info
set_package_info ==
    /\ c_pc = "build"
    /\ \E a \in PackInfoArgs :
          ctx' = [ctx EXCEPT !.pack_info = [name |-> a.name, version |-> a.version,
                                            license |-> a.license, authors |-> a.authors]]
    /\ UNCHANGED <<platform, sig_rets, scrate, enc, tampered, dctx, dec, c_pc>>
    /\ UNCHANGED <<pkiVars, keyVars, cmdVars, extVars>>

\* PackageContext::add_dep_info
add_dep_info ==
    /\ c_pc = "build"
    /\ Len(ctx.dep_infos) < MaxDeps
    /\ \E a \in DepArgs :
          ctx' = [ctx EXCEPT !.dep_infos =
                     Append(@, [name |-> a.name, ver_req |-> a.ver_req, src |-> a.src,
                                src_platform |-> a.src_platform, dump |-> TRUE])]
    /\ UNCHANGED <<platform, sig_rets, scrate, enc, tampered, dctx, dec, c_pc>>
    /\ UNCHANGED <<pkiVars, keyVars, cmdVars, extVars>>

\* dep_infos.push(..) of a DepInfo with dump = false (the field is public).
push_dep_info ==
    /\ c_pc = "build"
    /\ Len(ctx.dep_infos) < MaxDeps
    /\ ctx' = [ctx EXCEPT !.dep_infos = Append(@, UndumpedDep)]
    /\ UNCHANGED <<platform, sig_rets, scrate, enc, tampered, dctx, dec, c_pc>>
    /\ UNCHANGED <<pkiVars, keyVars, cmdVars, extVars>>

\* PackageContext::add_crate_bin
add_crate_bin ==
    /\ c_pc = "build"
    /\ \E b \in CrateBins : ctx' = [ctx EXCEPT !.crate_binary = b]
    /\ UNCHANGED <<platform, sig_rets, scrate, enc, tampered, dctx, dec, c_pc>>
    /\ UNCHANGED <<pkiVars, keyVars, cmdVars, extVars>>

\* network_client and network_keypair are set (commands/encode.rs).
set_network ==
    /\ c_pc = "build"
    /\ ctx.network_client = <<>>
    /\ ctx' = [ctx EXCEPT !.network_client = <<"client">>,
                          !.network_keypair = <<NetworkKeyPair>>]
    /\ UNCHANGED <<platform, sig_rets, scrate, enc, tampered, dctx, dec, c_pc>>
    /\ UNCHANGED <<pkiVars, keyVars, cmdVars, extVars>>

\* PackageContext::add_sig is called.
AddSig ==
    /\ c_pc = "build"
    /\ Len(ctx.sigs) < MaxSigs
    /\ \E a \in SigArgs :
          LET r == add_sig(ctx, a[1], a[2]) IN
          /\ ctx' = r.self
          /\ sig_rets' = Append(sig_rets, r.ret)
    /\ UNCHANGED <<platform, scrate, enc, tampered, dctx, dec, c_pc>>
    /\ UNCHANGED <<pkiVars, keyVars, cmdVars, extVars>>

\* encode_to_crate_package is called and its bytes become the file; enc
\* keeps the result (of the bytes, their number) and the signatures produced.
Encode ==
    /\ c_pc = "build"
    /\ LET r == encode_to_crate_package(ctx, platform) IN
       /\ enc' = [res |-> IF r.res.tag = "Ok" THEN Ok(Len(r.res.val)) ELSE r.res,
                  produced |-> r.produced]
       /\ IF r.res.tag = "Ok"
          THEN scrate' = r.res.val /\ c_pc' = "encoded"
          ELSE scrate' = <<>> /\ c_pc' = "failed"
    /\ UNCHANGED <<ctx, platform, sig_rets, tampered, dctx, dec>>
    /\ UNCHANGED <<pkiVars, keyVars, cmdVars, extVars>>

\* decode_from_crate_package is called on the file by a fresh context.
Decode ==
    /\ c_pc \in {"encoded", "tampered"}
    /\ LET r == decode_from_crate_package(DecoderContext, scrate, platform) IN
       /\ dctx' = r.self
       /\ dec' = [res |-> r.res, log |-> r.log, verified |-> r.verified]
    /\ c_pc' = "decoded"
    /\ UNCHANGED <<ctx, platform, sig_rets, scrate, enc, tampered>>
    /\ UNCHANGED <<pkiVars, keyVars, cmdVars, extVars>>

\* Someone changes one byte of the file: a byte gets one of its bits
\* flipped (the lowest or the highest), a byte of a digest or a signature
\* becomes another byte.
FlipBit(c, bit) ==
    IF ~IsByte(c) THEN <<bit>>
    ELSE IF (c[1] \div bit) % 2 = 0 THEN <<c[1] + bit>> ELSE <<c[1] - bit>>

Tamper ==
    /\ c_pc = "encoded"
    /\ \E pos \in 1..Len(scrate), bit \in {1, 128} :
          /\ scrate' = [scrate EXCEPT ![pos] = FlipBit(@, bit)]
          /\ tampered' = [kind |-> "flip", pos |-> pos - 1, refingerprinted |-> FALSE]
    /\ c_pc' = "tampered"
    /\ UNCHANGED <<ctx, platform, sig_rets, enc, dctx, dec>>
    /\ UNCHANGED <<pkiVars, keyVars, cmdVars, extVars>>

\* The one who changed the file recomputes its fingerprint.
Refingerprint ==
    /\ c_pc = "tampered"
    /\ ~tampered.refingerprinted
    /\ Len(scrate) >= FINGERPRINT_LEN
    /\ LET body == Slice(scrate, 0, Len(scrate) - FINGERPRINT_LEN) IN
       scrate' = body \o gen_digest_256(body)
    /\ tampered' = [tampered EXCEPT !.refingerprinted = TRUE]
    /\ UNCHANGED <<ctx, platform, sig_rets, enc, dctx, dec, c_pc>>
    /\ UNCHANGED <<pkiVars, keyVars, cmdVars, extVars>>

CodecStart ==
    /\ sig_rets = <<>>
    /\ scrate = <<>>
    /\ enc = NoRet
    /\ tampered = NoTamper
    /\ dctx = DecoderContext
    /\ dec = NoRet
    /\ c_pc = "build"

CodecIdle ==
    /\ ctx = PackageContext_new
    /\ platform = "up"
    /\ CodecStart

NextCodec ==
    \/ set_package_info
    \/ add_dep_info
    \/ push_dep_info
    \/ add_crate_bin
    \/ set_network
    \/ AddSig
    \/ Encode
    \/ Decode

\* The contexts whose files are tampered with: one signature each, of the
\* three types.
TamperBase ==
    [PackageContext_new EXCEPT
        !.pack_info = [name |-> <<97>>, version |-> <<49>>, license |-> <<>>,
                       authors |-> <<<<98>>>>],
        !.dep_infos = <<[name |-> <<117>>, ver_req |-> <<49>>,
                         src |-> SrcWithPath("Git", <<103>>), src_platform |-> <<>>,
                         dump |-> TRUE]>>,
        !.crate_binary = <<<<5>>, <<6>>>>,
        !.network_client = <<"client">>,
        !.network_keypair = <<NetworkKeyPair>>]

TamperContexts ==
    {add_sig(TamperBase, a[1], a[2]).self :
        a \in {<<GoodSigner, SIGTYPE_FILE>>, <<GoodSigner, SIGTYPE_CRATEBIN>>,
               <<PKCS_new, SIGTYPE_NETWORK>>}}

NextTamper ==
    \/ Encode
    \/ Tamper
    \/ Refingerprint
    \/ Decode

(***************************************************************************)
(*   LocalEncodeCommand::execute, NetworkEncodeCommand::execute            *)
(*   (commands/encode.rs)                                                  *)
(*                                                                         *)
(* One action per statement of execute. What the statement reads of the    *)
(* environment (the input path, the configuration, the signer's files,     *)
(* the file system under the output path) is chosen by the action.        *)
(***************************************************************************)
\* The operator `?`: the function returns the error of the result.
Propagates_never(res) == FALSE
Propagates(res) == res.tag = "Err"

NoLocals == [pki_client |-> <<>>, keypair |-> <<>>, pkcs |-> PKCS_new]

\* The file that is at bin_path before the command runs, when there is one.
OldOutFile == [exists |-> TRUE, content |-> <<<<1>>>>]

\* validate_input_file
validate_input_file(exists) ==
    IF ~exists THEN Err("FileNotFound", "input") ELSE Ok(TRUE)

\* Config::create_pki_client; configured: [net] has pki_base_url.
create_pki_client(configured) ==
    IF ~configured THEN Err("ConfigError", "pki_base_url") ELSE Ok("client")

\* pack_context(&params.input): cargo package runs, Cargo.toml and the
\* .crate file are read into a new context.
PackedContexts ==
    {[PackageContext_new EXCEPT
         !.pack_info = [name |-> <<97>>, version |-> <<49>>, license |-> <<>>,
                        authors |-> <<<<98>>>>],
         !.dep_infos = <<[name |-> <<117>>, ver_req |-> <<49>>,
                          src |-> SrcWithPath("Git", <<103>>), src_platform |-> <<>>,
                          dump |-> TRUE]>>,
         !.crate_binary = <<<<5>>, <<6>>>>],
     [PackageContext_new EXCEPT
         !.pack_info = [name |-> <<97>>, version |-> <<50>>, license |-> <<97>>,
                        authors |-> <<>>],
         !.crate_binary = <<<<5>>>>]}

\* The files at cert_path, pkey_path and root_ca_paths: an Option each.
SignerFiles ==
    {[cert |-> <<GoodSigner.cert_bin>>, pkey |-> <<GoodSigner.pkey_bin>>,
      root_cas |-> <<<<TrustedRoots[1]>>>>],
     [cert |-> <<GoodSigner.cert_bin>>, pkey |-> <<<<2>>>>,
      root_cas |-> <<<<TrustedRoots[1]>>>>],
     [cert |-> <<GoodSigner.cert_bin>>, pkey |-> <<>>,
      root_cas |-> <<<<TrustedRoots[1]>>>>],
     [cert |-> <<GoodSigner.cert_bin>>, pkey |-> <<GoodSigner.pkey_bin>>,
      root_cas |-> <<<<>>>>]}

\* PKCS::load_from_file_writer: the result and the PKCS after the call.
load_from_file_writer(self, files) ==
    IF files.cert = <<>>
    THEN [res |-> Err("FileNotFound", "cert"), self |-> self]
    ELSE IF files.pkey = <<>>
    THEN [res |-> Err("FileNotFound", "pkey"),
          self |-> [self EXCEPT !.cert_bin = files.cert[1]]]
    ELSE IF \E i \in 1..Len(files.root_cas) : files.root_cas[i] = <<>>
    THEN [res |-> Err("FileNotFound", "root ca"),
          self |-> [self EXCEPT
                       !.cert_bin = files.cert[1], !.pkey_bin = files.pkey[1],
                       !.root_ca_bins =
                           @ \o [i \in 1..((CHOOSE k \in 1..Len(files.root_cas) :
                                               /\ files.root_cas[k] = <<>>
                                               /\ \A j \in 1..(k - 1) :
                                                     files.root_cas[j] # <<>>) - 1) |->
                                    files.root_cas[i][1]]]]
    ELSE [res |-> Ok(TRUE),
          self |-> [self EXCEPT
                       !.cert_bin = files.cert[1], !.pkey_bin = files.pkey[1],
                       !.root_ca_bins = @ \o [i \in 1..Len(files.root_cas) |->
                                                 files.root_cas[i][1]]]]

\* ensure_output_dir: fs::create_dir_all succeeds or not.
ensure_output_dir(created) ==
    IF ~created THEN Err("Io", "create_dir_all") ELSE Ok(TRUE)

\* write_file: fs::write creates or truncates the file and writes content;
\* it fails before the file is opened ("denied") or after ("partial").
write_file(file, content, how) ==
    CASE how = "ok" -> [res |-> Ok(TRUE), file |-> [exists |-> TRUE, content |-> content]]
      [] how = "partial" -> [res |-> Err("Io", "write"),
                             file |-> [exists |-> TRUE, content |-> <<>>]]
      [] OTHER -> [res |-> Err("Io", "write"), file |-> file]

CmdUnchanged == UNCHANGED <<pkiVars, keyVars, sig_rets, tampered, dctx, dec, c_pc, platform,
                            cmd_kind, out_before, extVars>>

\* validate_input_file(&params.input)?
ValidateInput ==
    /\ cmd_pc = "validate"
    /\ \E exists \in BOOLEAN :
          LET r == validate_input_file(exists) IN
          IF Propagates(r) THEN cmd_ret' = r /\ cmd_pc' = "done"
          ELSE /\ cmd_ret' = cmd_ret
               /\ cmd_pc' = IF cmd_kind = "network" THEN "client" ELSE "pack"
    /\ UNCHANGED <<ctx, scrate, enc, out_file, out_dir, cmd_locals>>
    /\ CmdUnchanged

\* let pki_client = config.create_pki_client()?
CreatePkiClient ==
    /\ cmd_pc = "client"
    /\ \E configured \in BOOLEAN :
          LET r == create_pki_client(configured) IN
          IF Propagates(r) THEN cmd_ret' = r /\ cmd_pc' = "done" /\ cmd_locals' = cmd_locals
          ELSE /\ cmd_ret' = cmd_ret
               /\ cmd_pc' = "keypair"
               /\ cmd_locals' = [cmd_locals EXCEPT
                                    !.pki_client = IF r.tag = "Ok" THEN <<r.val>> ELSE <<>>]
    /\ UNCHANGED <<ctx, scrate, enc, out_file, out_dir>>
    /\ CmdUnchanged

\* let keypair = config.get_or_fetch_keypair()?: the key pair of the file
\* or of the platform, or the error of KeyPair::get_or_fetch as PkiError.
GetOrFetchKeypair ==
    /\ cmd_pc = "keypair"
    /\ \E r \in {Ok(NetworkKeyPair), Err("PkiError", "keypair")} :
          IF Propagates(r) THEN cmd_ret' = r /\ cmd_pc' = "done" /\ cmd_locals' = cmd_locals
          ELSE /\ cmd_ret' = cmd_ret
               /\ cmd_pc' = "pack"
               /\ cmd_locals' = [cmd_locals EXCEPT !.keypair = <<NetworkKeyPair>>]
    /\ UNCHANGED <<ctx, scrate, enc, out_file, out_dir>>
    /\ CmdUnchanged

\* let mut pack_context = pack_context(&params.input)?
PackContext ==
    /\ cmd_pc = "pack"
    /\ \E r \in {Ok(c) : c \in PackedContexts} \cup {Err("Other", "cargo package")} :
          IF Propagates(r) THEN cmd_ret' = r /\ cmd_pc' = "done" /\ ctx' = ctx
          ELSE /\ cmd_ret' = cmd_ret
               /\ cmd_pc' = IF cmd_kind = "local" THEN "signer" ELSE "add_sig"
               /\ ctx' = IF r.tag = "Ok" THEN r.val ELSE ctx
    /\ UNCHANGED <<scrate, enc, out_file, out_dir, cmd_locals>>
    /\ CmdUnchanged

\* let mut pkcs = PKCS::new(); pkcs.load_from_file_writer(..)?
LoadSigner ==
    /\ cmd_pc = "signer"
    /\ \E files \in SignerFiles :
          LET r == load_from_file_writer(PKCS_new, files) IN
          /\ cmd_locals' = [cmd_locals EXCEPT !.pkcs = r.self]
          /\ IF Propagates(r.res) THEN cmd_ret' = r.res /\ cmd_pc' = "done"
             ELSE cmd_ret' = cmd_ret /\ cmd_pc' = "add_sig"
    /\ UNCHANGED <<ctx, scrate, enc, out_file, out_dir>>
    /\ CmdUnchanged

\* pack_context.add_sig(pkcs, SIGTYPE::CRATEBIN), or network_client and
\* network_keypair are set and pack_context.add_sig(PKCS::new(), SIGTYPE::NETWORK).
CmdAddSig ==
    /\ cmd_pc = "add_sig"
    /\ ctx' = IF cmd_kind = "local"
              THEN add_sig(ctx, cmd_locals.pkcs, SIGTYPE_CRATEBIN).self
              ELSE add_sig([ctx EXCEPT !.network_client = cmd_locals.pki_client,
                                       !.network_keypair = cmd_locals.keypair],
                           PKCS_new, SIGTYPE_NETWORK).self
    /\ cmd_pc' = "encode"
    /\ UNCHANGED <<scrate, enc, out_file, out_dir, cmd_locals, cmd_ret>>
    /\ CmdUnchanged

\* let (_, _, bin) = pack_context.encode_to_crate_package()?
CmdEncode ==
    /\ cmd_pc = "encode"
    /\ LET r == encode_to_crate_package(ctx, platform) IN
       /\ enc' = [res |-> IF r.res.tag = "Ok" THEN Ok(Len(r.res.val)) ELSE r.res,
                  produced |-> r.produced]
       /\ scrate' = IF r.res.tag = "Ok" THEN r.res.val ELSE <<>>
       /\ IF Propagates(r.res) THEN cmd_ret' = r.res /\ cmd_pc' = "done"
          ELSE cmd_ret' = cmd_ret /\ cmd_pc' = "ensure_dir"
    /\ UNCHANGED <<ctx, out_file, out_dir, cmd_locals>>
    /\ CmdUnchanged

\* let output_dir = ensure_output_dir(&params.output)?
EnsureOutputDir ==
    /\ cmd_pc = "ensure_dir"
    /\ \E created \in {TRUE} \cup {out_dir} :
          LET r == ensure_output_dir(created) IN
          /\ out_dir' = (out_dir \/ created)
          /\ IF Propagates(r) THEN cmd_ret' = r /\ cmd_pc' = "done"
             ELSE cmd_ret' = cmd_ret /\ cmd_pc' = "write"
    /\ UNCHANGED <<ctx, scrate, enc, out_file, cmd_locals>>
    /\ CmdUnchanged

\* write_file(&bin_path, &bin)?; Ok(())
WriteFile ==
    /\ cmd_pc = "write"
    /\ \E how \in {"ok", "partial", "denied"} :
          LET r == write_file(out_file, scrate, IF out_dir THEN how ELSE "denied") IN
          /\ out_file' = r.file
          /\ cmd_ret' = r.res
    /\ cmd_pc' = "done"
    /\ UNCHANGED <<ctx, scrate, enc, out_dir, cmd_locals>>
    /\ CmdUnchanged

CmdStart ==
    /\ cmd_kind \in {"local", "network"}
    /\ cmd_pc = "validate"
    /\ out_dir \in BOOLEAN
    /\ out_file \in IF out_dir THEN {NoOutFile, OldOutFile} ELSE {NoOutFile}
    /\ out_before = out_file
    /\ cmd_locals = NoLocals
    /\ cmd_ret = NoRet

NextCmd ==
    \/ ValidateInput
    \/ CreatePkiClient
    \/ GetOrFetchKeypair
    \/ PackContext
    \/ LoadSigner
    \/ CmdAddSig
    \/ CmdEncode
    \/ EnsureOutputDir
    \/ WriteFile

CmdIdle ==
    /\ cmd_kind = "none"
    /\ cmd_pc = "idle"
    /\ out_file = NoOutFile
    /\ out_dir = FALSE
    /\ out_before = NoOutFile
    /\ cmd_locals = NoLocals
    /\ cmd_ret = NoRet

(***************************************************************************)
(*        Calls on one StringTable (utils/context.rs), one at a time       *)
(***************************************************************************)
MaxTableCalls == 3

\* The strings inserted: of no byte, of one, two and four bytes.
TableStrings == {<<>>, <<97>>, <<98>>, <<97, 98>>, <<99, 100, 101, 102>>}

\* The bytes read: tables as to_bytes writes them, a table whose first
\* entry is not the empty string, one with the empty string after another
\* entry, one cut inside a length, one that fails after its first entry, one
\* that is not UTF-8.
TableBytes ==
    {to_bytes(StringTable_new),
     to_bytes(insert_str(StringTable_new, <<97>>).tbl),
     Cells(<<1, 0, 0, 0, 97>>),
     Cells(<<2, 0, 0, 0, 97, 98, 0, 0, 0, 0>>),
     Cells(<<1, 0>>),
     Cells(<<0, 0, 0, 0, 5, 0, 0, 0, 97>>),
     Cells(<<1, 0, 0, 0, 200>>)}

NoCall == [op |-> "none", st |-> <<>>, bytes |-> <<>>, off |-> 0, res |-> NoRet,
           before |-> StringTable_new]

\* StringTable::insert_str(st)
InsertStr ==
    /\ tbl_calls < MaxTableCalls
    /\ \E st \in TableStrings :
          LET r == insert_str(tbl_self, st) IN
          /\ tbl_self' = r.tbl
          /\ tbl_last' = [op |-> "insert_str", st |-> st, bytes |-> <<>>, off |-> r.off,
                          res |-> NoRet, before |-> tbl_self]
    /\ tbl_calls' = tbl_calls + 1
    /\ UNCHANGED <<tbl_reads, tbl_failed>>
    /\ UNCHANGED <<pkiVars, keyVars, codecVars, cmdVars, unpackVars, maskVars, tomlVars,
                   cfgVars>>

\* StringTable::read_bytes(bytes)
ReadBytes ==
    /\ tbl_calls < MaxTableCalls
    /\ \E bytes \in TableBytes :
          LET r == read_bytes(tbl_self, bytes) IN
          /\ tbl_self' = r.self
          /\ tbl_last' = [op |-> "read_bytes", st |-> <<>>, bytes |-> bytes, off |-> 0,
                          res |-> r.res, before |-> tbl_self]
          /\ tbl_failed' = (tbl_failed \/ r.res.tag = "Err")
    /\ tbl_calls' = tbl_calls + 1
    /\ tbl_reads' = tbl_reads + 1
    /\ UNCHANGED <<pkiVars, keyVars, codecVars, cmdVars, unpackVars, maskVars, tomlVars,
                   cfgVars>>

TblStart ==
    /\ tbl_self = StringTable_new
    /\ tbl_last = NoCall
    /\ tbl_calls = 0
    /\ tbl_reads = 0
    /\ tbl_failed = FALSE

TblIdle == TblStart

NextTable ==
    \/ InsertStr
    \/ ReadBytes

(***************************************************************************)
(*   unpack_context (unpack.rs), LocalDecodeCommand::execute and           *)
(*   NetworkDecodeCommand::execute (commands/decode.rs)                    *)
(*                                                                         *)
(* One action per statement of execute; unpack_context is one statement    *)
(* of the local command. The file at params.input is an encoded container, *)
(* one with a byte changed, or one cut short.                              *)
(***************************************************************************)
\* The contexts whose files are given to the commands: one signature of
\* each type, no signature, two signatures.
DecodeInputContexts ==
    TamperContexts
    \cup {TamperBase, add_sig(add_sig(TamperBase, GoodSigner, SIGTYPE_FILE).self,
                              GoodSigner, SIGTYPE_CRATEBIN).self}

\* The file with its fingerprint computed again.
Refingerprinted(bin) ==
    Slice(bin, 0, Len(bin) - FINGERPRINT_LEN)
        \o gen_digest_256(Slice(bin, 0, Len(bin) - FINGERPRINT_LEN))

\* The files made of an encoded container: the container; the container
\* with the lowest bit of one byte flipped and the fingerprint computed
\* again; the same without the fingerprint, for its first and last byte; the
\* container cut to n bytes, and cut with a fingerprint computed over what
\* is left.
FilesOf(bin) ==
    {bin}
    \cup {Refingerprinted([bin EXCEPT ![pos] = FlipBit(@, 1)]) :
             pos \in 1..(Len(bin) - FINGERPRINT_LEN)}
    \cup {[bin EXCEPT ![pos] = FlipBit(@, 1)] : pos \in {1, Len(bin)}}
    \cup {SubSeq(bin, 1, n) : n \in {0, 1, FINGERPRINT_LEN - 1, FINGERPRINT_LEN}}
    \cup {Refingerprinted(SubSeq(bin, 1, n)) : n \in {HEADER_LEN + FINGERPRINT_LEN,
                                                       Len(bin) - 1}}

InputFiles ==
    UNION {FilesOf(encode_to_crate_package(c, "up").res.val) : c \in DecodeInputContexts}

\* The files at params.root_ca_paths, an Option each: the root CA of the
\* signer, no path, a path without a file.
RootCaFiles == {<<<<TrustedRoots[1]>>>>, <<>>, <<<<>>>>}

NotDecoded == [res |-> NoRet, log |-> <<>>, verified |-> <<>>, self |-> PackageContext_new]

\* PKCS::root_ca_bins
root_ca_bins(ca_files) ==
    IF \E i \in 1..Len(ca_files) : ca_files[i] = <<>>
    THEN Err("FileNotFound", "root ca")
    ELSE Ok([i \in 1..Len(ca_files) |-> ca_files[i][1]])

\* Unpacking::unpack_context, from the return of decode_from_crate_package:
\* the return and what the decoding did.
unpack_decoded(d) ==
    [ret |-> CASE d.res.tag = "Ok" -> Ok(d.self)
               [] d.res.tag = "Err" -> Err("DecodeError", d.res.msg)
               [] OTHER -> d.res,
     dec |-> d]

\* unpack_context(file_path, cas_path): canonicalize and read of every CA
\* path, read of the file, decode.
unpack_context(file, ca_files, mode) ==
    LET roots == root_ca_bins(ca_files) IN
    IF roots.tag = "Err" THEN [ret |-> roots, dec |-> NotDecoded]
    ELSE IF file = <<>> THEN [ret |-> Err("FileNotFound", "file"), dec |-> NotDecoded]
    ELSE unpack_decoded(decode_from_crate_package(
             [PackageContext_new EXCEPT !.root_cas = roots.val], file[1], mode))

\* format!("{:#?}\n{:#?}", pack_info, dep_infos): the text shows every field
\* of both values.
MetadataText(self) == <<"Debug", self.pack_info, self.dep_infos>>

UnpackUnchanged == UNCHANGED <<pkiVars, keyVars, codecVars, cmdVars, tblVars, maskVars, tomlVars,
                               cfgVars,
                               un_kind, un_file, un_cas, un_before>>

\* validate_input_file(&params.input)?
DecodeValidateInput ==
    /\ un_pc = "validate"
    /\ LET r == validate_input_file(un_file # <<>>) IN
       IF Propagates(r) THEN un_ret' = r /\ un_pc' = "done"
       ELSE /\ un_pc' = (IF un_kind = "local" THEN "unpack" ELSE "client")
            /\ UNCHANGED un_ret
    /\ UNCHANGED <<un_ctx, un_dec, un_unpacked, un_dir, un_bin, un_meta>>
    /\ UnpackUnchanged

\* let pack_context = unpack_context(&params.input, params.root_ca_paths)?
UnpackContext ==
    /\ un_pc = "unpack"
    /\ LET u == unpack_context(un_file, un_cas, platform) IN
       /\ un_unpacked' = u.ret
       /\ un_dec' = u.dec
       /\ IF u.ret.tag = "Ok"
          THEN un_ctx' = <<u.ret.val>> /\ un_pc' = "ensure_dir" /\ UNCHANGED un_ret
          ELSE un_ret' = u.ret /\ un_pc' = "done" /\ UNCHANGED un_ctx
    /\ UNCHANGED <<un_dir, un_bin, un_meta>>
    /\ UnpackUnchanged

\* let pki_client = config.create_pki_client()?
DecodeCreatePkiClient ==
    /\ un_pc = "client"
    /\ \E configured \in BOOLEAN :
          LET r == create_pki_client(configured) IN
          IF Propagates(r) THEN un_ret' = r /\ un_pc' = "done"
          ELSE un_pc' = "read" /\ UNCHANGED un_ret
    /\ UNCHANGED <<un_ctx, un_dec, un_unpacked, un_dir, un_bin, un_meta>>
    /\ UnpackUnchanged

\* let bin = read_file(&input_path)?; PackageContext::new() with the client
DecodeReadFile ==
    /\ un_pc = "read"
    /\ \E readable \in BOOLEAN :
          IF ~readable THEN un_ret' = Err("Io", "read") /\ un_pc' = "done"
          ELSE un_pc' = "decode" /\ UNCHANGED un_ret
    /\ UNCHANGED <<un_ctx, un_dec, un_unpacked, un_dir, un_bin, un_meta>>
    /\ UnpackUnchanged

\* pack_context.decode_from_crate_package(&bin)?
DecodeFromCratePackage ==
    /\ un_pc = "decode"
    /\ LET d == decode_from_crate_package(
                    [PackageContext_new EXCEPT !.network_client = <<"client">>],
                    un_file[1], platform) IN
       /\ un_dec' = d
       /\ IF d.res.tag = "Ok"
          THEN un_ctx' = <<d.self>> /\ un_pc' = "ensure_dir" /\ UNCHANGED un_ret
          ELSE un_ret' = d.res /\ un_pc' = "done" /\ UNCHANGED un_ctx
    /\ UNCHANGED <<un_unpacked, un_dir, un_bin, un_meta>>
    /\ UnpackUnchanged

\* let output_path = ensure_output_dir(&params.output)?
DecodeEnsureOutputDir ==
    /\ un_pc = "ensure_dir"
    /\ \E created \in BOOLEAN :
          LET r == ensure_output_dir(created) IN
          IF Propagates(r) THEN un_ret' = r /\ un_pc' = "done" /\ UNCHANGED un_dir
          ELSE un_dir' = TRUE /\ un_pc' = "write_bin" /\ UNCHANGED un_ret
    /\ UNCHANGED <<un_ctx, un_dec, un_unpacked, un_bin, un_meta>>
    /\ UnpackUnchanged

\* write_file(&bin_path, &pack_context.crate_binary.bytes)?
DecodeWriteFile ==
    /\ un_pc = "write_bin"
    /\ \E how \in {"ok", "partial", "denied"} :
          LET r == write_file(un_bin, un_ctx[1].crate_binary, how) IN
          /\ un_bin' = r.file
          /\ IF Propagates(r.res) THEN un_ret' = r.res /\ un_pc' = "done"
             ELSE un_pc' = "write_meta" /\ UNCHANGED un_ret
    /\ UNCHANGED <<un_ctx, un_dec, un_unpacked, un_dir, un_meta>>
    /\ UnpackUnchanged

\* write_text_file(&metadata_path, ..)?; Ok(())
DecodeWriteTextFile ==
    /\ un_pc = "write_meta"
    /\ \E how \in {"ok", "partial", "denied"} :
          LET r == write_file(un_meta, MetadataText(un_ctx[1]), how) IN
          /\ un_meta' = r.file
          /\ un_ret' = (IF Propagates(r.res) THEN r.res ELSE Ok(<<>>))
    /\ un_pc' = "done"
    /\ UNCHANGED <<un_ctx, un_dec, un_unpacked, un_dir, un_bin>>
    /\ UnpackUnchanged

UnpackRest ==
    /\ un_pc = "validate"
    /\ un_ctx = <<>>
    /\ un_dec = NotDecoded
    /\ un_unpacked = NoRet
    /\ un_dir = FALSE
    /\ un_bin = un_before
    /\ un_meta = un_before
    /\ un_ret = NoRet

UnpackStart ==
    /\ un_file \in {<<>>} \cup {<<f>> : f \in InputFiles}
    /\ un_before \in {NoOutFile, OldOutFile}
    /\ \/ un_kind = "local" /\ un_cas \in RootCaFiles
       \/ un_kind = "network" /\ un_cas = <<>>
    /\ UnpackRest

UnpackIdle ==
    /\ un_kind = "none"
    /\ un_file = <<>>
    /\ un_cas = <<>>
    /\ un_before = NoOutFile
    /\ UnpackRest

NextUnpack ==
    \/ DecodeValidateInput
    \/ UnpackContext
    \/ DecodeCreatePkiClient
    \/ DecodeReadFile
    \/ DecodeFromCratePackage
    \/ DecodeEnsureOutputDir
    \/ DecodeWriteFile
    \/ DecodeWriteTextFile

(***************************************************************************)
(*   The buffer that is signed (PackageContext::binary_before_sig,         *)
(*   utils/context.rs) over the layouts of one content                     *)
(***************************************************************************)
\* The contents laid out: TamperBase and a content without dependencies.
MaskContents ==
    {TamperBase,
     [TamperBase EXCEPT !.pack_info = [name |-> <<97>>, version |-> <<50>>,
                                       license |-> <<97>>, authors |-> <<>>],
                        !.dep_infos = <<>>,
                        !.crate_binary = <<<<5>>>>]}

\* The signatures of a layout, by their types, in the order of add_sig.
MaskSigTypes == {SIGTYPE_FILE, SIGTYPE_CRATEBIN, SIGTYPE_NETWORK}

RECURSIVE WithSigs(_, _)
WithSigs(self, typs) ==
    IF typs = <<>> THEN self
    ELSE WithSigs(add_sig(self, IF Head(typs) = SIGTYPE_NETWORK THEN PKCS_new ELSE GoodSigner,
                          Head(typs)).self,
                  Tail(typs))

SigTypeLists(n) == UNION {[1..k -> MaskSigTypes] : k \in 0..n}

\* Step 5 of encode_to_crate_package: binary_before_sig over the image
\* whose SIGSTRUCTURE sections are empty placeholders.
CanonicalOfLayout(self, layout) ==
    binary_before_sig(self, layout,
                      EncodeImage(self, layout, [i \in 1..Len(self.sigs) |-> <<>>]))

CanonicalPlaceholders(self) == CanonicalOfLayout(self, EncodeLayout(self))

\* Step 4 of the decoding: binary_before_sig over the file as it is parsed.
CanonicalOfPackage(self, bin, crate_package) ==
    IF crate_package.tag = "Err" THEN crate_package
    ELSE binary_before_sig(self, crate_package.val, bin)

CanonicalOfFile(self, encoded) ==
    IF encoded.res.tag = "Err" THEN encoded.res
    ELSE CanonicalOfPackage(self, encoded.res.val, decode_from_slice(encoded.res.val))

NoBuffers == [extra |-> <<>>, placeholders |-> NoRet, signed |-> NoRet, wider |-> NoRet]

\* The buffers of one content: with its signatures as placeholders, with
\* its signatures written, and with the placeholders of more signatures.
Canonicalise ==
    /\ mask_pc = "start"
    /\ \E extra \in SigTypeLists(1) :
          mask_out' = [extra |-> extra,
                       placeholders |-> CanonicalPlaceholders(mask_ctx),
                       signed |-> CanonicalOfFile(mask_ctx,
                                                  encode_to_crate_package(mask_ctx, "up")),
                       wider |-> CanonicalPlaceholders(WithSigs(mask_ctx, extra))]
    /\ mask_pc' = "done"
    /\ UNCHANGED mask_ctx
    /\ UNCHANGED <<pkiVars, keyVars, codecVars, cmdVars, tblVars, unpackVars, tomlVars,
                   cfgVars>>

MaskStart ==
    /\ mask_ctx \in {WithSigs(c, typs) : c \in MaskContents, typs \in SigTypeLists(MaxSigs)}
    /\ mask_pc = "start"
    /\ mask_out = NoBuffers

MaskIdle ==
    /\ mask_ctx = PackageContext_new
    /\ mask_pc = "idle"
    /\ mask_out = NoBuffers

NextMask == Canonicalise

(***************************************************************************)
(*   CrateToml::write_info_to_package_context (utils/from_toml.rs)         *)
(*                                                                         *)
(* A TOML value is [kind, s, attrs]: a string s, a table attrs (from its  *)
(* keys to values), or a value of another kind (an integer).              *)
(***************************************************************************)
MaxManifestDeps == 2

TomlStr(s) == [kind |-> "str", s |-> s, attrs |-> <<>>]
TomlInt == [kind |-> "int", s |-> <<>>, attrs |-> <<>>]
TomlTable(attrs) == [kind |-> "table", s |-> <<>>, attrs |-> attrs]

\* The keys of a dependency's table: the three that are allowed, and path.
DepKeys == {"version", "git", "registry", "path"}

\* The values of a dependency: a version string, an integer, a table of
\* strings over any of the keys, a table whose version is an integer.
DepValues ==
    {TomlStr(<<49>>), TomlInt}
    \cup {TomlTable([k \in K |-> TomlStr(IF k = "version" THEN <<50>> ELSE <<103>>)]) :
             K \in SUBSET DepKeys}
    \cup {TomlTable([k \in {"version"} |-> TomlInt])}

\* The names of the dependencies, in the order of the table.
DepNames == <<<<116>>, <<117>>, <<118>>>>

\* [dependencies]: absent, or up to n entries.
DependencyTables(n) ==
    {<<>>} \cup {<<[i \in 1..Len(v) |-> [name |-> DepNames[i], val |-> v[i]]]>> :
                    v \in UNION {[1..m -> DepValues] : m \in 0..n}}

\* [package]: absent, with name and version, without name.
PackageTables ==
    {<<>>,
     <<[k \in {"name", "version", "license"} |->
           TomlStr(IF k = "name" THEN <<97>> ELSE IF k = "version" THEN <<49>> ELSE <<109>>)]>>,
     <<[k \in {"version"} |-> TomlStr(<<49>>)]>>}

\* write_package_info_to_package_context: the result and the context.
write_package_info_to_package_context(self, package) ==
    IF "name" \notin DOMAIN package \/ "version" \notin DOMAIN package
    THEN [res |-> Panic("index not found"), self |-> self]
    ELSE IF package["name"].kind # "str" \/ package["version"].kind # "str"
    THEN [res |-> Err("ParseError", "name or version"), self |-> self]
    ELSE IF "license" \in DOMAIN package /\ package["license"].kind # "str"
    THEN [res |-> Err("ParseError", "license"), self |-> self]
    ELSE [res |-> Ok(TRUE),
          self |-> [self EXCEPT !.pack_info =
                       [name |-> package["name"].s, version |-> package["version"].s,
                        license |-> IF "license" \in DOMAIN package
                                    THEN package["license"].s ELSE <<>>,
                        authors |-> <<>>]]]

\* The DepInfo that write_dep_info_to_package_context builds of one entry of
\* [dependencies], or the error of the entry.
DepInfoOfEntry_dumpAll(name, val, src_platform) ==
    IF val.kind = "str"
    THEN Ok([DepInfo_default EXCEPT !.src_platform = src_platform, !.name = name, !.ver_req = val.s])
    ELSE IF val.kind # "table" THEN Err("ParseError", "dependency")
    ELSE IF \E k \in DOMAIN val.attrs \cap {"version", "git", "registry"} :
               val.attrs[k].kind # "str"
    THEN Err("ParseError", "attribute")
    ELSE Ok([name |-> name,
             ver_req |-> IF "version" \in DOMAIN val.attrs THEN val.attrs["version"].s
                         ELSE DefaultStr,
             src |-> IF "registry" \in DOMAIN val.attrs
                     THEN SrcWithPath("Registry", val.attrs["registry"].s)
                     ELSE IF "git" \in DOMAIN val.attrs
                     THEN SrcWithPath("Git", val.attrs["git"].s)
                     ELSE CratesIo,
             src_platform |-> src_platform,
             dump |-> TRUE])
DepInfoOfEntry(name, val, src_platform) ==
    IF val.kind = "str"
    THEN Ok([DepInfo_default EXCEPT !.src_platform = src_platform, !.name = name, !.ver_req = val.s])
    ELSE IF val.kind # "table" THEN Err("ParseError", "dependency")
    ELSE IF \E k \in DOMAIN val.attrs \cap {"version", "git", "registry"} :
               val.attrs[k].kind # "str"
    THEN Err("ParseError", "attribute")
    ELSE Ok([name |-> name,
             ver_req |-> IF "version" \in DOMAIN val.attrs THEN val.attrs["version"].s
                         ELSE DefaultStr,
             src |-> IF "registry" \in DOMAIN val.attrs
                     THEN SrcWithPath("Registry", val.attrs["registry"].s)
                     ELSE IF "git" \in DOMAIN val.attrs
                     THEN SrcWithPath("Git", val.attrs["git"].s)
                     ELSE CratesIo,
             src_platform |-> src_platform,
             dump |-> \A k \in DOMAIN val.attrs : k \in {"version", "git", "registry"}])

\* write_dep_info_to_package_context, the loop from entry i on: the result
\* (the names that are not dumped) and the context. add_dep_info pushes the
\* DepInfo with dump = true.
RECURSIVE write_dep_info_to_package_context(_, _, _, _, _)
write_dep_entry(self, deps, i, src_platform, irresolve_depinfos, dep_info) ==
    IF dep_info.tag = "Err" THEN [res |-> dep_info, self |-> self]
    ELSE IF dep_info.val.dump
    THEN write_dep_info_to_package_context(
             [self EXCEPT !.dep_infos = Append(@, [dep_info.val EXCEPT !.dump = TRUE])],
             deps, i + 1, src_platform, irresolve_depinfos)
    ELSE write_dep_info_to_package_context(
             self, deps, i + 1, src_platform, Append(irresolve_depinfos, dep_info.val.name))

write_dep_info_to_package_context(self, deps, i, src_platform, irresolve_depinfos) ==
    IF i > Len(deps) THEN [res |-> Ok(irresolve_depinfos), self |-> self]
    ELSE write_dep_entry(self, deps, i, src_platform, irresolve_depinfos,
                         DepInfoOfEntry(deps[i].name, deps[i].val, src_platform))

\* write_info_to_package_context, after the [package] table is written.
write_info_after_package(t, p) ==
    IF p.res.tag # "Ok" THEN p
    ELSE IF t.dependencies = <<>>
    THEN [res |-> Err("ParseError", "no [dependencies]"), self |-> p.self]
    ELSE write_dep_info_to_package_context(p.self, t.dependencies[1], 1, <<>>, <<>>)

write_info_to_package_context(t, self) ==
    IF t.package = <<>> THEN [res |-> Err("ParseError", "no [package]"), self |-> self]
    ELSE write_info_after_package(t, write_package_info_to_package_context(self, t.package[1]))

\* The names of the dependencies in the dep table of an encoded file.
EncodedDepNames(encoded) ==
    IF encoded.res.tag # "Ok" THEN encoded.res
    ELSE Ok(decode_from_crate_package(PackageContext_new, encoded.res.val, "up").self.dep_infos)

\* toml.write_info_to_package_context(&mut pack_context)
WriteInfo ==
    /\ toml_pc = "start"
    /\ LET r == write_info_to_package_context(manifest, toml_ctx) IN
       /\ toml_ctx' = r.self
       /\ toml_ret' = r.res
    /\ toml_pc' = "ingested"
    /\ UNCHANGED <<manifest, toml_deps>>
    /\ UNCHANGED <<pkiVars, keyVars, codecVars, cmdVars, tblVars, unpackVars, maskVars,
                   cfgVars>>

\* The context is encoded; the dependencies of the file are read back.
TomlEncode ==
    /\ toml_pc = "ingested"
    /\ toml_ret.tag = "Ok"
    /\ toml_deps' = EncodedDepNames(encode_to_crate_package(toml_ctx, "up"))
    /\ toml_pc' = "encoded"
    /\ UNCHANGED <<manifest, toml_ctx, toml_ret>>
    /\ UNCHANGED <<pkiVars, keyVars, codecVars, cmdVars, tblVars, unpackVars, maskVars,
                   cfgVars>>

TomlRest ==
    /\ toml_ctx = PackageContext_new
    /\ toml_ret = NoRet
    /\ toml_deps = NoRet

TomlStart ==
    /\ manifest \in [package : PackageTables, dependencies : DependencyTables(MaxManifestDeps)]
    /\ toml_pc = "start"
    /\ TomlRest

TomlIdle ==
    /\ manifest = [package |-> <<>>, dependencies |-> <<>>]
    /\ toml_pc = "idle"
    /\ TomlRest

NextToml ==
    \/ WriteInfo
    \/ TomlEncode

(***************************************************************************)
(*   Config::from_file (config.rs)                                         *)
(*                                                                         *)
(* A configuration file is whether it can be read, whether it is TOML,     *)
(* and its sections: each is absent, "typed" (its values have the types    *)
(* of the struct that reads it) or "mistyped". A section that was read is  *)
(* <<name>>: the settings of that section of the file.                     *)
(***************************************************************************)
NewSections == {"local.encode", "local.decode", "network.encode", "network.decode", "net"}
LegacySections == {"encode", "decode"}

ConfigFiles ==
    [readable : BOOLEAN, toml : BOOLEAN,
     sections : [NewSections \cup LegacySections -> {"absent", "typed", "mistyped"}]]

\* The Option read of one section that is not mistyped.
SectionOption(file, name) ==
    IF file.sections[name] = "absent" THEN <<>> ELSE <<name>>

\* An Option of a table of two sections: None when both are absent.
TableOption(file, encode, decode) ==
    IF file.sections[encode] = "absent" /\ file.sections[decode] = "absent" THEN <<>>
    ELSE <<[encode |-> SectionOption(file, encode), decode |-> SectionOption(file, decode)]>>

\* toml::from_str::<Config>: the keys local, network and net are read, the
\* others are ignored.
ParseConfig(file) ==
    IF ~file.toml THEN Err("String", "TOML")
    ELSE IF \E name \in NewSections : file.sections[name] = "mistyped"
    THEN Err("String", "type")
    ELSE Ok([local |-> TableOption(file, "local.encode", "local.decode"),
             network |-> TableOption(file, "network.encode", "network.decode"),
             net |-> SectionOption(file, "net")])

\* toml::from_str::<LegacyConfig>: the keys encode and decode are read, the
\* others are ignored.
ParseLegacyConfig(file) ==
    IF ~file.toml THEN Err("String", "TOML")
    ELSE IF \E name \in LegacySections : file.sections[name] = "mistyped"
    THEN Err("String", "type")
    ELSE Ok([encode |-> SectionOption(file, "encode"),
             decode |-> SectionOption(file, "decode")])

\* Config::from_file, from the two parses of the content.
from_file_parsed(config, legacy) ==
    IF config.tag = "Ok" /\ config.val.local # <<>> THEN config
    ELSE IF legacy.tag = "Err" THEN legacy
    ELSE Ok([local |-> <<[encode |-> legacy.val.encode, decode |-> legacy.val.decode]>>,
             network |-> <<>>,
             net |-> <<>>])

from_file(file) ==
    IF ~file.readable THEN Err("String", "read")
    ELSE from_file_parsed(ParseConfig(file), ParseLegacyConfig(file))

\* Config::from_file(path)
FromFile ==
    /\ cfg_pc = "start"
    /\ cfg_ret' = from_file(cfg_file)
    /\ cfg_pc' = "done"
    /\ UNCHANGED cfg_file
    /\ UNCHANGED <<pkiVars, keyVars, codecVars, cmdVars, tblVars, unpackVars, maskVars,
                   tomlVars>>

CfgStart ==
    /\ cfg_file \in ConfigFiles
    /\ cfg_pc = "start"
    /\ cfg_ret = NoRet

CfgIdle ==
    /\ cfg_file = [readable |-> FALSE, toml |-> FALSE,
                   sections |-> [name \in NewSections \cup LegacySections |-> "absent"]]
    /\ cfg_pc = "idle"
    /\ cfg_ret = NoRet

NextCfg == FromFile

ExtIdle == TblIdle /\ UnpackIdle /\ MaskIdle /\ TomlIdle /\ CfgIdle

(***************************************************************************)
(*                            Specifications                               *)
(***************************************************************************)
InitPki ==
    /\ retry_times \in 0..MaxRetryTimes
    /\ endpoint \in Endpoints
    /\ PkiStart /\ KeyIdle /\ CodecIdle /\ CmdIdle /\ ExtIdle

InitKey ==
    /\ key_file \in InitialKeyFiles
    /\ umask \in {18, 63}
    /\ KeyStart /\ PkiIdle /\ CodecIdle /\ CmdIdle /\ ExtIdle

InitCodec ==
    /\ ctx = PackageContext_new
    /\ platform \in {"up", "down"}
    /\ CodecStart /\ PkiIdle /\ KeyIdle /\ CmdIdle /\ ExtIdle

InitTamper ==
    /\ ctx \in TamperContexts
    /\ platform = "up"
    /\ CodecStart /\ PkiIdle /\ KeyIdle /\ CmdIdle /\ ExtIdle

InitCmd ==
    /\ ctx = PackageContext_new
    /\ platform \in {"up", "error", "down"}
    /\ CmdStart /\ CodecStart /\ PkiIdle /\ KeyIdle /\ ExtIdle

SpecPki == InitPki /\ [][NextPki]_vars

\* A call that was entered runs to its end: every request returns (the
\* client's timeout bounds it) and every sleep ends.
SpecPkiFair ==
    InitPki /\ [][NextPki]_vars /\ WF_vars(sign_digest_pass) /\ WF_vars(verify_digest_pass)

SpecKey == InitKey /\ [][NextKey]_vars

SpecCodec == InitCodec /\ [][NextCodec]_vars

SpecTamper == InitTamper /\ [][NextTamper]_vars

SpecCmd == InitCmd /\ [][NextCmd]_vars

InitTable ==
    /\ TblStart /\ PkiIdle /\ KeyIdle /\ CodecIdle /\ CmdIdle
    /\ UnpackIdle /\ MaskIdle /\ TomlIdle /\ CfgIdle

SpecTable == InitTable /\ [][NextTable]_vars

InitUnpack ==
    /\ UnpackStart
    /\ ctx = PackageContext_new
    /\ platform \in (IF un_kind = "network" THEN {"up", "down"} ELSE {"up"})
    /\ CodecStart /\ PkiIdle /\ KeyIdle /\ CmdIdle /\ TblIdle /\ MaskIdle /\ TomlIdle /\ CfgIdle

SpecUnpack == InitUnpack /\ [][NextUnpack]_vars

InitMask ==
    /\ MaskStart /\ PkiIdle /\ KeyIdle /\ CodecIdle /\ CmdIdle
    /\ TblIdle /\ UnpackIdle /\ TomlIdle /\ CfgIdle

SpecMask == InitMask /\ [][NextMask]_vars

InitToml ==
    /\ TomlStart /\ PkiIdle /\ KeyIdle /\ CodecIdle /\ CmdIdle
    /\ TblIdle /\ UnpackIdle /\ MaskIdle /\ CfgIdle

SpecToml == InitToml /\ [][NextToml]_vars

InitCfg ==
    /\ CfgStart /\ PkiIdle /\ KeyIdle /\ CodecIdle /\ CmdIdle
    /\ TblIdle /\ UnpackIdle /\ MaskIdle /\ TomlIdle

SpecCfg == InitCfg /\ [][NextCfg]_vars


(***************************************************************************)
(* Claims about the container codec (checked under SpecCodec, SpecTamper). *)
(***************************************************************************)
\* The dependencies that are written to the file: those with dump = true.
Dumped(dep_infos) == SelectSeq(dep_infos, LAMBDA d : d.dump)

HasSigOfType(typ) == \E i \in 1..Len(ctx.sigs) : ctx.sigs[i].typ = typ

SameContent ==
    /\ dctx.pack_info = ctx.pack_info
    /\ dctx.dep_infos = Dumped(ctx.dep_infos)
    /\ dctx.crate_binary = ctx.crate_binary

\* C1: when a context with at least one signature was encoded and a fresh
\* context with the same root CAs and the same PKI platform has decoded the
\* bytes, the decoding succeeded and its pack_info, dep_infos and
\* crate_binary equal the encoder's pack_info, its dep_infos with
\* dump = true in their order, and its crate_binary.
C1_RoundTrip ==
    (c_pc = "decoded" /\ tampered = NoTamper /\ Len(ctx.sigs) >= 1)
        => (dec.res.tag = "Ok" /\ SameContent)

C1_Witness ==
    /\ c_pc = "decoded" /\ tampered = NoTamper
    /\ dec.res.tag = "Ok"
    /\ HasSigOfType(SIGTYPE_FILE) /\ HasSigOfType(SIGTYPE_NETWORK)
    /\ \E i \in 1..Len(ctx.dep_infos) : ~ctx.dep_infos[i].dump
    /\ \E i \in 1..Len(dctx.dep_infos) : dctx.dep_infos[i].src = SrcWithPath("Git", <<103>>)
    /\ dctx.pack_info.authors = <<<<98>>, <<97>>>>

\* A byte of the file was changed and the fingerprint was left as it was.
FingerprintBroken ==
    c_pc = "decoded" /\ tampered.kind = "flip" /\ ~tampered.refingerprinted

NothingDecoded ==
    /\ dec.log = <<"check_fingerprint">>
    /\ dctx = DecoderContext
    /\ dec.verified = <<>>

CrateBinaryAt(pos) ==
    LET e == EncodeLayout(ctx).section_index.entries[3] IN
    pos >= e.sh_offset + 4 /\ pos < e.sh_offset + e.sh_size

\* C3: for a file with a CrateBin or a Network signature, when one bit of
\* the crate binary was flipped and the fingerprint recomputed,
\* decode_from_crate_package fails with SignatureError (the platform
\* answers the verification of the changed digest with a result that is
\* not "OK").
C3_SignatureTamper ==
    (/\ c_pc = "decoded" /\ tampered.kind = "flip" /\ tampered.refingerprinted
     /\ CrateBinaryAt(tampered.pos)
     /\ (HasSigOfType(SIGTYPE_CRATEBIN) \/ HasSigOfType(SIGTYPE_NETWORK)))
        => (dec.res.tag = "Err" /\ dec.res.kind = "SignatureError")

\* C4: for a file with a File signature, no change of one byte of the file
\* with the fingerprint recomputed decodes successfully to a pack_info,
\* dep_infos or crate_binary other than the encoder's.
C4_AuthenticatedContent ==
    (/\ c_pc = "decoded" /\ tampered.kind = "flip" /\ tampered.refingerprinted
     /\ HasSigOfType(SIGTYPE_FILE)
     /\ dec.res.tag = "Ok")
        => SameContent

\* The SIGSTRUCTURE sections of the file in their order on disk.
SigSectionsOnDisk ==
    SelectSeq(decode_from_slice(scrate).val.data_sections,
              LAMBDA ds : ds.kind = "SigStructureSection")

\* C5: add_sig returns 0, 1, 2, ... in the order of the calls; an encode
\* produces the signatures in that order; after a decode sigs[i] is the
\* record read from the i-th SIGSTRUCTURE section of the file, and its type
\* is the type of the i-th signature added before the encode.
C5_SignatureOrder ==
    /\ Len(sig_rets) = Len(ctx.sigs)
    /\ \A i \in 1..Len(sig_rets) : sig_rets[i] = i - 1
    /\ c_pc \in {"encoded", "failed", "decoded"} =>
          /\ \A k \in 1..Len(enc.produced) : enc.produced[k] = k - 1
          /\ enc.res.tag = "Ok" => Len(enc.produced) = Len(ctx.sigs)
    /\ c_pc = "decoded" =>
          /\ Len(dctx.sigs) = Len(ctx.sigs)
          /\ \A i \in 1..Len(dctx.sigs) :
                /\ Ok(dctx.sigs[i]) = read_from_sig_structure_section(SigSectionsOnDisk[i])
                /\ dctx.sigs[i].typ = ctx.sigs[i].typ

C5_Witness ==
    /\ c_pc = "decoded"
    /\ sig_rets = <<0, 1>>
    /\ enc.produced = <<0, 1>>
    /\ Len(dctx.sigs) = 2
    /\ dctx.sigs[1].typ = SIGTYPE_NETWORK /\ dctx.sigs[2].typ = SIGTYPE_FILE

(***************************************************************************)
(* Claims about the encode commands (checked under SpecCmd).               *)
(***************************************************************************)
\* C10: an encode command changes or creates the file at its output path
\* only after encode_to_crate_package returned success with every signature
\* of the context produced; when the encoding fails, a signature that fails
\* included, the command returns the error and the file is as it was.
C10_WriteAfterSignatures ==
    /\ out_file # out_before =>
          /\ cmd_pc = "done"
          /\ enc # NoRet /\ enc.res.tag = "Ok"
          /\ Len(ctx.sigs) = 1 /\ enc.produced = <<0>>
    /\ (cmd_pc = "done" /\ enc # NoRet /\ enc.res.tag = "Err") =>
          /\ out_file = out_before
          /\ cmd_ret = enc.res

C10_Witness ==
    /\ cmd_pc = "done" /\ cmd_kind = "network"
    /\ enc # NoRet /\ enc.res.tag = "Err" /\ enc.res.kind = "PkiError"
    /\ out_before = OldOutFile /\ out_file = out_before

(***************************************************************************)
(* Claims about the PKI client (checked under SpecPki).                    *)
(***************************************************************************)
\* C6: against an endpoint that fails with a connection error R times and
\* then answers 200, a finished sign_digest has succeeded if and only if
\* R <= retry_times.
C6_RetrySemantics ==
    (pki_op = "sign" /\ pki_pc = "done" /\ endpoint.kind = "flaky")
        => (pki_ret.tag = "Ok" <=> endpoint.R <= retry_times)

\* The spec's scenario: two dropped connections, retry_times = 3, success
\* on the third request.
C6_Witness ==
    /\ pki_op = "sign" /\ pki_pc = "done" /\ endpoint.kind = "flaky"
    /\ endpoint.R = 2 /\ retry_times = 3
    /\ pki_ret.tag = "Ok" /\ Len(outcomes) = 3

\* C7: an HTTP response ends the call: it is the last request's outcome, the
\* call has returned, and no sleep followed it (every sleep follows one of
\* the failed requests before it); an endpoint that always answers 500 gets
\* exactly one request and the call returns its status and body as an error.
C7_NoRetryOnResponse ==
    /\ \A i \in 1..Len(outcomes) :
          outcomes[i].kind = "response"
              => /\ i = Len(outcomes)
                 /\ pki_pc = "done"
                 /\ pki_ret # NoRet
                 /\ sleeps = i - 1
    /\ (pki_pc = "done" /\ endpoint.kind = "fixed" /\ endpoint.resp.status = 500)
          => /\ Len(outcomes) = 1
             /\ sleeps = 0
             /\ pki_ret = [tag |-> "Err", why |-> "http", status |-> 500,
                           body |-> endpoint.resp.body]

C7_Witness ==
    /\ pki_pc = "done" /\ pki_op = "verify" /\ retry_times = 3
    /\ endpoint.kind = "fixed" /\ endpoint.resp.status = 500
    /\ Len(outcomes) = 1 /\ pki_ret.tag = "Err"

(***************************************************************************)
(* Claims about the key-pair bootstrap (checked under SpecKey).            *)
(***************************************************************************)
Decodes(f) == f.exists /\ DecodeKeyPair(f.content).ok

\* C8: of two consecutive successful calls of get_or_fetch that start from a
\* missing or corrupt file, the first sends exactly one /v1/keypair request
\* and the second none, and the second returns the KeyPair the first one
\* fetched and persisted; a call that finds a file that decodes sends no
\* request, leaves the file as it is and returns the decoded KeyPair.
C8_IdempotentBootstrap ==
    /\ \A i \in 1..Len(klog) :
          Decodes(klog[i].before)
              => /\ klog[i].reqs = 0
                 /\ klog[i].after = klog[i].before
                 /\ klog[i].ret = KeyOk(DecodeKeyPair(klog[i].before.content).kp)
    /\ \A i \in 1..(Len(klog) - 1) :
          (/\ ~Decodes(klog[i].before)
           /\ klog[i].ret.tag = "Ok"
           /\ klog[i + 1].ret.tag = "Ok")
              => /\ klog[i].reqs + klog[i + 1].reqs = 1
                 /\ klog[i + 1].reqs = 0
                 /\ klog[i + 1].ret = klog[i].ret
                 /\ klog[i + 1].after = klog[i].after

\* Two successful calls, the first from a file that exists and does not
\* decode, fetching a key pair with a key id.
C8_Witness ==
    /\ Len(klog) = 2
    /\ klog[1].before.exists /\ ~Decodes(klog[1].before)
    /\ klog[1].ret.tag = "Ok" /\ klog[2].ret.tag = "Ok"
    /\ klog[1].reqs = 1
    /\ klog[1].ret.kp.key_id # <<>>

\* C9 (as claimed): in every state the file at path does not exist, or holds
\* what it held when the call began, or holds the complete encoded KeyPair
\* with mode 0o600.
C9_AtomicWrite ==
    \/ ~key_file.exists
    \/ key_file = key_before
    \/ /\ key_file.mode = KEYPAIR_FILE_MODE
       /\ key_file.content = EncodeKeyPair(key_kp)

(***************************************************************************)
(* Claims about the string table (checked under SpecTable).                *)
(***************************************************************************)
\* C12: in a table reached from StringTable::new() by insert_str calls only,
\* the insertion of a string a second time returns the offset of the first
\* time and leaves the table as it was, str_by_off of the offset returned
\* is the string inserted, and the empty string is at offset 0.
C12_Dedup ==
    tbl_reads = 0 =>
        /\ \A s \in TableStrings :
              /\ insert_str(insert_str(tbl_self, s).tbl, s) = insert_str(tbl_self, s)
              /\ str_by_off(insert_str(tbl_self, s).tbl, insert_str(tbl_self, s).off) = Ok(s)
        /\ insert_str(tbl_self, <<>>) = [tbl |-> tbl_self, off |-> 0]
        /\ tbl_last.op = "insert_str" =>
              /\ insert_str(tbl_self, tbl_last.st) = [tbl |-> tbl_self, off |-> tbl_last.off]
              /\ str_by_off(tbl_self, tbl_last.off) = Ok(tbl_last.st)

\* A string that is not empty was inserted a second time, after another one.
C12_Witness ==
    /\ tbl_reads = 0
    /\ tbl_calls = MaxTableCalls
    /\ tbl_last.op = "insert_str"
    /\ tbl_last.st # <<>>
    /\ tbl_last.st \in DOMAIN tbl_last.before.str2off
    /\ tbl_last.off > STRING_LENGTH_PREFIX_BYTES

\* C13 (as amended): in a table reached by insert_str calls only, the offset
\* returned for a string that was not in the table is the number of bytes of
\* the table before the call, and the table after the call is the table
\* before followed by the length of the string on four bytes and its bytes.
C13_EntryOffsets ==
    (/\ tbl_reads = 0
     /\ tbl_last.op = "insert_str"
     /\ tbl_last.st \notin DOMAIN tbl_last.before.str2off) =>
        /\ tbl_last.off = Len(to_bytes(tbl_last.before))
        /\ to_bytes(tbl_self)
              = to_bytes(tbl_last.before) \o U32(Len(tbl_last.st)) \o Cells(tbl_last.st)

\* A string was inserted after one of a single byte: its offset is not a
\* multiple of four.
C13_Witness ==
    /\ tbl_reads = 0
    /\ tbl_last.op = "insert_str"
    /\ tbl_last.st \notin DOMAIN tbl_last.before.str2off
    /\ tbl_last.off % 4 # 0

\* C13 as the specification states it: every offset returned is a multiple
\* of four.
C13_Aligned ==
    tbl_last.op = "insert_str" => tbl_last.off % 4 = 0

\* C14: while every read_bytes call succeeded, the string at offset 0 is the
\* empty string and the offset of the empty string is 0.
C14_EmptyAtZero ==
    ~tbl_failed =>
        /\ str_by_off(tbl_self, 0) = Ok(<<>>)
        /\ off_by_str(tbl_self, <<>>) = Ok(0)

(***************************************************************************)
(* Claims about the decode commands and unpack_context (checked under      *)
(* SpecUnpack).                                                            *)
(***************************************************************************)
\* One of the two output files is not as it was when execute began.
OutputWritten == un_bin # un_before \/ un_meta # un_before

\* decode_from_crate_package was called and did not return Ok.
DecodeFailed == un_dec.res.tag \in {"Err", "Panic"}

\* A context is held by execute or returned by unpack_context, or an output
\* file is written, only after decode_from_crate_package returned Ok: the
\* fingerprint was checked and the verification of every signature of the
\* file was called and succeeded.
OutputIsVerified ==
    (OutputWritten \/ un_ctx # <<>> \/ un_unpacked.tag = "Ok") =>
        /\ un_dec.res.tag = "Ok"
        /\ un_dec.log = DecodeSteps
        /\ un_dec.verified = [i \in 1..Len(un_dec.self.sigs) |-> i]
        /\ un_ctx \in {<<>>, <<un_dec.self>>}

\* When the decoding fails, execute returns an error, holds no context and
\* writes no file.
FailureIsReported ==
    DecodeFailed =>
        /\ un_pc = "done"
        /\ un_ret.tag = "Err"
        /\ un_kind = "local" => un_unpacked.tag = "Err"
        /\ un_ctx = <<>>
        /\ ~OutputWritten

\* C11: the decode commands and unpack_context hand out a context and write
\* the output files only after the fingerprint check and the verification of
\* every signature succeeded; on a failure the caller gets an error, no
\* context and no output file.
C11_NoUnverifiedOutput == OutputIsVerified /\ FailureIsReported

\* The string offsets of a package section and of the entries of a
\* dependency table.
PackageOffsets(ps) ==
    {ps.pkg_name, ps.pkg_version, ps.pkg_license}
    \cup {ps.pkg_authors[i] : i \in 1..Len(ps.pkg_authors)}

DepTableOffsets(entries) ==
    UNION {{entries[i].dep_name, entries[i].dep_verreq, entries[i].dep_srcpath,
            entries[i].dep_platform} : i \in 1..Len(entries)}

\* The file parses, its string table reads, and a string offset of its
\* PACK or DEPTABLE section is not the position of an entry of the table.
HasUnknownOffset(crate_package, tbl) ==
    /\ crate_package.tag = "Ok"
    /\ tbl.res.tag = "Ok"
    /\ package_section(crate_package.val).tag = "Ok"
    /\ dep_table_section(crate_package.val).tag = "Ok"
    /\ \E off \in PackageOffsets(package_section(crate_package.val).val)
                  \cup DepTableOffsets(dep_table_section(crate_package.val).val.entries) :
          off \notin DOMAIN tbl.self.off2str

UnknownOffsetIn(bin) ==
    HasUnknownOffset(decode_from_slice(bin),
                     IF decode_from_slice(bin).tag = "Ok"
                     THEN read_bytes(StringTable_new, decode_from_slice(bin).val.string_table)
                     ELSE [res |-> NoRet, self |-> StringTable_new])

\* C15: a file with a valid fingerprint that holds, in its PACK or DEPTABLE
\* section, a string offset that is not the start of an entry of its string
\* table makes decode_from_crate_package fail with DecodeError.
C15_UnknownOffsetIsDecodeError ==
    (/\ un_dec # NotDecoded
     /\ Len(un_dec.log) >= 2
     /\ UnknownOffsetIn(un_file[1])) =>
        (un_dec.res.tag = "Err" /\ un_dec.res.kind = "DecodeError")

\* C16: decode_from_crate_package returns success or an error for every
\* file and never aborts; a file shorter than the fingerprint, and one with
\* a valid fingerprint that decode_from_slice cannot parse, give DecodeError.
C16_DecodeIsTotal ==
    un_dec # NotDecoded =>
        /\ un_dec.res.tag \in {"Ok", "Err"}
        /\ (Len(un_file[1]) < FINGERPRINT_LEN \/ un_dec.log = SubSeq(DecodeSteps, 1, 2))
              => (un_dec.res.tag = "Err" /\ un_dec.res.kind = "DecodeError")

\* C17: when the digest enclosed in a local signature differs from the one
\* computed, unpack_context reports SignatureError as
\* decode_from_crate_package does; unpack_context reports DecodeError only
\* when decode_from_crate_package does.
C17_ErrorKindsPreserved ==
    /\ (/\ un_kind = "local"
        /\ un_dec.res = Err("SignatureError", "local signature verification failed"))
          => (un_unpacked.tag = "Err" /\ un_unpacked.kind = "SignatureError")
    /\ (/\ un_kind = "local" /\ un_dec # NotDecoded
        /\ un_unpacked.tag = "Err" /\ un_unpacked.kind = "DecodeError")
          => (un_dec.res.tag = "Err" /\ un_dec.res.kind = "DecodeError")

(***************************************************************************)
(* Claims about the buffer that is signed (checked under SpecMask).        *)
(***************************************************************************)
\* C18 (as amended): the buffer computed over a container with its
\* signatures written is the buffer computed over the same content with
\* the same signature sections as empty placeholders; the buffer of a layout
\* with more signature sections is another one.
C18_PayloadMasking ==
    mask_pc = "done" =>
        /\ mask_out.placeholders.tag = "Ok"
        /\ mask_out.signed = mask_out.placeholders
        /\ mask_out.extra = <<>> => mask_out.wider = mask_out.placeholders
        /\ mask_out.extra # <<>> => mask_out.wider # mask_out.placeholders

\* A content with two signatures, of which one is a File signature, was laid
\* out, and again with one more.
C18_Witness ==
    /\ mask_pc = "done"
    /\ Len(mask_ctx.sigs) = 2
    /\ \E i \in 1..Len(mask_ctx.sigs) : mask_ctx.sigs[i].typ = SIGTYPE_FILE
    /\ mask_out.extra # <<>>
    /\ mask_out.signed.tag = "Ok"

\* C18 as the specification states it: the buffer of a content with N
\* signatures is the buffer of the same content laid out with K >= N
\* placeholder signature sections.
C18_SectionIndexMasking ==
    mask_pc = "done" => mask_out.wider = mask_out.placeholders

(***************************************************************************)
(* Claims about the manifest (checked under SpecToml).                     *)
(***************************************************************************)
\* The value of a dependency that goes to the context: a version string, or
\* a table whose keys are all among version, git and registry.
GoesToContext(val) ==
    \/ val.kind = "str"
    \/ val.kind = "table" /\ DOMAIN val.attrs \subseteq {"version", "git", "registry"}

NamesOf(dep_infos) == {dep_infos[j].name : j \in 1..Len(dep_infos)}

WellFormed(file) ==
    /\ file.readable /\ file.toml
    /\ \A name \in DOMAIN file.sections : file.sections[name] # "mistyped"

Present(file, names) == {name \in names : file.sections[name] # "absent"}

\* The sections of the file that the Config returned holds.
SectionsOf(config) ==
    (IF config.local = <<>> THEN {}
     ELSE {config.local[1].encode[i] : i \in 1..Len(config.local[1].encode)}
          \cup {config.local[1].decode[i] : i \in 1..Len(config.local[1].decode)})
    \cup (IF config.network = <<>> THEN {}
          ELSE {config.network[1].encode[i] : i \in 1..Len(config.network[1].encode)}
               \cup {config.network[1].decode[i] : i \in 1..Len(config.network[1].decode)})
    \cup {config.net[i] : i \in 1..Len(config.net)}

\* C20: a well-formed file of the legacy layout (sections [encode] and
\* [decode] only) loads with them as local.encode and local.decode; a
\* well-formed file of the new layout loads with every section it contains,
\* also when it has no [local.*] section.
C20_LegacyFallbackOnly ==
    (cfg_pc = "done" /\ WellFormed(cfg_file)) =>
        /\ cfg_ret.tag = "Ok"
        /\ (Present(cfg_file, NewSections) = {} /\ Present(cfg_file, LegacySections) # {}) =>
              /\ cfg_ret.val.local # <<>>
              /\ cfg_ret.val.local[1].encode = SectionOption(cfg_file, "encode")
              /\ cfg_ret.val.local[1].decode = SectionOption(cfg_file, "decode")
        /\ (Present(cfg_file, LegacySections) = {} /\ Present(cfg_file, NewSections) # {}) =>
              SectionsOf(cfg_ret.val) = Present(cfg_file, NewSections)

(***************************************************************************)
(* Claims about the buffer that is signed and verified.                    *)
(***************************************************************************)
\* buf is image[0 .. ds_offset + datasection_size_without_sig()) with the
\* bytes at si_offset + none_sig_size() <= i < si_offset + si_size set to 0
\* (i counts from 0, the sequences from 1).
IsCanonicalPrefix(buf, crate_package, image) ==
    LET total == crate_package.crate_header.ds_offset
                 + datasection_size_without_sig(crate_package.section_index)
        first == crate_package.crate_header.si_offset
                 + none_sig_size(crate_package.section_index)
        last == crate_package.crate_header.si_offset + crate_package.crate_header.si_size IN
    /\ Len(buf) = total
    /\ total <= Len(image)
    /\ \A i \in 0..(total - 1) :
          buf[i + 1] = (IF first <= i /\ i < last THEN <<0>> ELSE image[i + 1])

\* The call of binary_before_sig that check_sigs makes in the decoding of
\* the file of the command: its package and its return.
CheckSigsEntered == un_dec.log = DecodeSteps
DecodedPackage == decode_from_slice(un_file[1]).val
DecodedBuffer == binary_before_sig(un_dec.self, DecodedPackage, un_file[1])

\* Whenever the call returns, it returns the prefix with the zeroed range.
ReturnedBufferIsPrefix ==
    (CheckSigsEntered /\ DecodedBuffer.tag = "Ok") =>
        IsCanonicalPrefix(DecodedBuffer.val, DecodedPackage, un_file[1])

\* C21: binary_before_sig(pkg, image) returns the prefix
\* image[0 .. ds_offset + datasection_size_without_sig()) in which the bytes
\* of the signature entries of the section index are 0 and every other byte
\* is that of the image; the image is left as it was.
C21_CanonicalPrefix ==
    CheckSigsEntered =>
        /\ DecodedBuffer.tag = "Ok"
        /\ IsCanonicalPrefix(DecodedBuffer.val, DecodedPackage, un_file[1])

\* The container encode_to_crate_package emits for the context laid out, and
\* its decoding by a context created with the root CA of the signer and the
\* PKI client.
MaskEncoded == encode_to_crate_package(mask_ctx, "up")
MaskDecoded == decode_from_crate_package(DecoderContext, MaskEncoded.res.val, "up")

\* The buffer check_sigs computes over the emitted bytes.
BufferOfDecode ==
    binary_before_sig(MaskDecoded.self, decode_from_slice(MaskEncoded.res.val).val,
                      MaskEncoded.res.val)

FileSigs(self) == {i \in 1..Len(self.sigs) : self.sigs[i].typ = SIGTYPE_FILE}

\* C22: for every container encode emits, the buffer the decoding computes
\* over the emitted bytes (signatures written, fingerprint appended) is,
\* byte for byte, the buffer the encoding digested before any signature was
\* written, and every File signature of the container verifies in the
\* decoding, whatever the number and the lengths of the signatures.
C22_TwoPassConsistency ==
    (mask_pc = "done" /\ MaskEncoded.res.tag = "Ok") =>
        /\ mask_out.placeholders.tag = "Ok"
        /\ BufferOfDecode = mask_out.placeholders
        /\ MaskDecoded.res.tag = "Ok"
        /\ Len(MaskDecoded.self.sigs) = Len(mask_ctx.sigs)
        /\ FileSigs(MaskDecoded.self) = FileSigs(mask_ctx)
        /\ FileSigs(mask_ctx) \subseteq {MaskDecoded.verified[k] :
                                            k \in 1..Len(MaskDecoded.verified)}

\* A container with a File signature and a signature of another length (a
\* network signature) was encoded.
C22_Witness ==
    /\ mask_pc = "done"
    /\ MaskEncoded.res.tag = "Ok"
    /\ FileSigs(mask_ctx) # {}
    /\ \E i, j \in 1..Len(MaskDecoded.self.sigs) :
          /\ MaskDecoded.self.sigs[i].typ = SIGTYPE_FILE
          /\ Len(MaskDecoded.self.sigs[j].bin) # Len(MaskDecoded.self.sigs[i].bin)
    /\ MaskDecoded.res.tag = "Ok"

(***************************************************************************)
(* Claims about what the signatures cover (checked under SpecTamper).      *)
(***************************************************************************)
\* The position (from 0) is a byte of the string table of the file the
\* context encodes to.
StringTableAt(pos) ==
    LET h == EncodeLayout(ctx).crate_header IN
    pos >= h.strtable_offset /\ pos < h.strtable_offset + h.strtable_size

\* The file as encode_to_crate_package emitted it.
OriginalFile == encode_to_crate_package(ctx, platform).res.val

\* The context at the call of check_sigs in the decoding of a file that
\* parses: the signatures of the file read into a fresh context.
VerifierOf(bin) ==
    [DecoderContext EXCEPT
        !.sigs = sigs_from(<<>>, decode_from_slice(bin).val, 0,
                           sig_num(decode_from_slice(bin).val.section_index)).sigs]

\* The digests check_sigs compares with those of the signatures.
FileDigestOf(bin) ==
    gen_digest_256(binary_before_sig(VerifierOf(bin), decode_from_slice(bin).val, bin).val)

CrateDigestOf(bin) ==
    gen_digest_256(crate_binary_section(decode_from_slice(bin).val).val.bin)

CheckSigsOf(bin) == check_sigs(VerifierOf(bin), decode_from_slice(bin).val, bin, platform)

StringTableChanged ==
    /\ c_pc \in {"tampered", "decoded"}
    /\ tampered.kind = "flip"
    /\ tampered.refingerprinted
    /\ StringTableAt(tampered.pos)

\* C23: the string table lies after the data sections and the buffer that
\* is signed ends before it, so a file that differs from an encoded one only
\* in a byte of its string table (fingerprint recomputed) gives check_sigs
\* the same File digest and the same CrateBin/Network digest, and check_sigs
\* returns for it what it returns for the encoded file.
C23_StringTableUnsigned ==
    StringTableChanged =>
        /\ scrate # OriginalFile
        /\ decode_from_slice(scrate).tag = "Ok"
        /\ Len(binary_before_sig(VerifierOf(scrate), decode_from_slice(scrate).val,
                                 scrate).val)
               <= EncodeLayout(ctx).crate_header.strtable_offset
        /\ FileDigestOf(scrate) = FileDigestOf(OriginalFile)
        /\ CrateDigestOf(scrate) = CrateDigestOf(OriginalFile)
        /\ CheckSigsOf(scrate) = CheckSigsOf(OriginalFile)
        /\ CheckSigsOf(scrate).res.tag = "Ok"

\* A byte of a string of the table of a file with a File signature was
\* changed, and the decoding of the file succeeded with another content.
C23_Witness ==
    /\ StringTableChanged
    /\ c_pc = "decoded"
    /\ HasSigOfType(SIGTYPE_FILE)
    /\ dec.res.tag = "Ok"
    /\ ~SameContent

(***************************************************************************)
(* Claims about files without signatures (checked under SpecUnpack).       *)
(***************************************************************************)
\* The file of the command has a valid fingerprint, parses, and its section
\* index has no SIGSTRUCTURE entry.
FileWithoutSignatures ==
    /\ un_file # <<>>
    /\ check_fingerprint(un_file[1]) = Ok(TRUE)
    /\ decode_from_slice(un_file[1]).tag = "Ok"
    /\ sig_num(decode_from_slice(un_file[1]).val.section_index) = 0

\* The container encode_to_crate_package emits for a context without
\* signatures.
UnsignedContainer == encode_to_crate_package(TamperBase, "up").res.val

\* C24: a container without signatures is accepted. When the section index
\* has no SIGSTRUCTURE entry, the decoding reads no signature and calls no
\* verification, local or of the PKI platform, and fails for no reason of
\* signatures; the container encoded without signatures decodes
\* successfully, whatever the root CAs and the state of the platform.
C24_NoSignatureAccepted ==
    (un_dec # NotDecoded /\ FileWithoutSignatures) =>
        /\ un_dec.self.sigs = <<>>
        /\ un_dec.verified = <<>>
        /\ un_dec.res.tag = "Err" => un_dec.res.kind \notin {"SignatureError", "PkiError"}
        /\ un_file[1] = UnsignedContainer =>
              (un_dec.res.tag = "Ok" /\ un_dec.log = DecodeSteps)

\* The network command decoded the container without signatures while the
\* platform was down, and wrote its outputs.
C24_Witness ==
    /\ un_kind = "network"
    /\ platform = "down"
    /\ un_dec # NotDecoded
    /\ FileWithoutSignatures
    /\ un_file[1] = UnsignedContainer
    /\ un_dec.res.tag = "Ok"
    /\ un_ret = Ok(<<>>)

(***************************************************************************)
(* Claims about verify_digest in check_sigs (checked under SpecUnpack).    *)
(***************************************************************************)
\* The signature whose verification the decoding called last, when it is a
\* network signature.
LastVerifiedIsNetwork ==
    /\ un_dec.verified # <<>>
    /\ un_dec.self.sigs[un_dec.verified[Len(un_dec.verified)] ].typ = SIGTYPE_NETWORK

\* C25: verify_digest returns Ok(true) exactly on a 2xx response whose
\* result is "OK", an error on every other outcome of the request, and never
\* Ok(false); so a network signature that check_sigs does not accept makes
\* the decoding fail with PkiError, and never with the SignatureError of the
\* arm Ok(false).
C25_VerifyNeverOkFalse ==
    /\ \A o \in TransportErrors \cup Responses :
          /\ CallReturn(o, "verify").tag \in {"Ok", "Err"}
          /\ CallReturn(o, "verify").tag = "Ok" => CallReturn(o, "verify").why = "true"
          /\ CallReturn(o, "verify").tag = "Ok"
                <=> (o.kind = "response" /\ is_success(o.status) /\ o.body = "good")
    /\ ErrFallback.tag = "Err"
    /\ un_dec.res # Err("SignatureError", "network signature verification failed")
    /\ (un_dec.res.tag = "Err" /\ LastVerifiedIsNetwork) => un_dec.res.kind = "PkiError"

\* The platform was up and answered the verification of a network signature
\* over a changed crate binary with a result other than "OK".
C25_Witness ==
    /\ un_kind = "network"
    /\ platform = "up"
    /\ LastVerifiedIsNetwork
    /\ un_dec.res = Err("PkiError", "verify")
    /\ un_ret = un_dec.res

(***************************************************************************)
(* Claims about the retry loop of the PKI client (checked under SpecPki    *)
(* and, for termination, under SpecPkiFair).                               *)
(***************************************************************************)
\* The requests sent so far, the sleeps taken, and the errors that end the
\* call: at most retry_times + 1 requests; one sleep after every failed
\* request that is followed by another one, none after the last; only a
\* timeout, connect or request error is followed by another request.
RetryBounds ==
    /\ Len(outcomes) <= retry_times + 1
    /\ pki_pc = "loop" => sleeps = Len(outcomes)
    /\ pki_pc = "done" => (Len(outcomes) >= 1 /\ sleeps = Len(outcomes) - 1)
    /\ \A i \in 1..Len(outcomes) :
          /\ i < Len(outcomes) => (outcomes[i].kind = "error" /\ is_retryable(outcomes[i]))
          /\ (outcomes[i].kind = "error" /\ ~is_retryable(outcomes[i])) =>
                (i = Len(outcomes) /\ pki_pc = "done" /\ pki_ret = ErrNetwork)

\* C26: every call of sign_digest or verify_digest ends, after at most
\* retry_times + 1 requests; it sleeps once after each failed request that
\* is followed by another request and never after the last (sleeps =
\* requests - 1); a transport error that is not a timeout, connect or
\* request error ends the call at once.
C26_BoundedRetry == []RetryBounds /\ ((pki_pc = "loop") ~> (pki_pc = "done"))

\* A call with retry_times = 3 sent four requests that all timed out or
\* were refused, slept three times and returned the network error.
C26_Witness ==
    /\ pki_pc = "done"
    /\ retry_times = 3
    /\ Len(outcomes) = 4
    /\ \A i \in 1..4 : outcomes[i].kind = "error" /\ is_retryable(outcomes[i])
    /\ sleeps = 3
    /\ pki_ret = ErrNetwork

(***************************************************************************)
(* Claims about the requests of get_or_fetch (checked under SpecKey).      *)
(***************************************************************************)
\* The calls of the log that returned (the process did not stop in them).
Returned(i) == klog[i].ret.tag \in {"Ok", "Err"}

RequestFailed(i) ==
    klog[i].ret.tag = "Err" /\ klog[i].ret.why \in {"error", "status", "badjson"}

PersistFailed(i) ==
    /\ klog[i].ret.tag = "Err"
    /\ klog[i].ret.why \in {"create_dir_all", "write", "metadata", "set_permissions"}

\* C27 (as amended): get_or_fetch sends at most one request per call and
\* never a second one: none when the file decodes, none when the HTTP
\* client cannot be built (the call then returns an error and leaves the
\* file as it was), exactly one otherwise. When the request fails, the call
\* returns an error and the file is as it was; when the request succeeds
\* and the saving fails, the call returns an error that carries no key pair.
C27_OneRequest ==
    \A i \in 1..Len(klog) :
        /\ klog[i].reqs <= 1
        /\ Returned(i) =>
              /\ Decodes(klog[i].before) => klog[i].reqs = 0
              /\ ~Decodes(klog[i].before) =>
                    (klog[i].reqs = 0 <=> klog[i].ret = KeyErr("client"))
              /\ klog[i].ret = KeyErr("client") => klog[i].after = klog[i].before
              /\ RequestFailed(i) => (klog[i].reqs = 1 /\ klog[i].after = klog[i].before)
              /\ PersistFailed(i) => (klog[i].reqs = 1 /\ DOMAIN klog[i].ret = {"tag", "why"})
              /\ klog[i].ret.tag = "Ok" /\ klog[i].reqs = 1 =>
                    /\ klog[i].after.content = EncodeKeyPair(klog[i].ret.kp)
                    /\ klog[i].after.mode = KEYPAIR_FILE_MODE

\* A call on a file that exists and does not decode got a status that is
\* not 2xx, and the next call fetched a key pair that could not be saved.
C27_Witness ==
    /\ Len(klog) >= 2
    /\ klog[1].before.exists /\ ~Decodes(klog[1].before)
    /\ klog[1].ret = KeyErr("status") /\ klog[1].reqs = 1
    /\ klog[1].after = klog[1].before
    /\ PersistFailed(2) /\ klog[2].reqs = 1

\* C27 as stated: every call on a file that does not decode sends exactly
\* one request.
C27_ExactlyOneRequest ==
    \A i \in 1..Len(klog) :
        (Returned(i) /\ ~Decodes(klog[i].before)) => klog[i].reqs = 1

(***************************************************************************)
(* Claims about the assertion of binary_before_sig (checked under          *)
(* SpecUnpack).                                                            *)
(***************************************************************************)
\* The context the decoding left decodes the same file once more: it holds
\* the signatures of the first decoding when sigs() pushes those of the
\* second.
DecodedAgain == decode_from_crate_package(un_dec.self, un_file[1], platform)

\* C28: in a decoding by a context created by PackageContext::new(), when
\* check_sigs calls binary_before_sig the context holds as many signatures
\* as the section index has SIGSTRUCTURE entries, so the assertion is not
\* evaluated and never fails. A context that already holds signatures gets
\* those of the file appended: its count differs from sig_num(), and the
\* assertion fails exactly when the file has a signature.
C28_AssertionHolds ==
    /\ un_dec.res # Panic("assert_eq")
    /\ CheckSigsEntered =>
          /\ Len(un_dec.self.sigs) = sig_num(DecodedPackage.section_index)
          /\ DecodedBuffer # Panic("assert_eq")
          /\ Len(DecodedAgain.self.sigs) = 2 * Len(un_dec.self.sigs)
          /\ DecodedAgain.res = Panic("assert_eq") <=> un_dec.self.sigs # <<>>

\* A file with two signatures was decoded by one of the commands.
C28_Witness ==
    /\ CheckSigsEntered
    /\ sig_num(DecodedPackage.section_index) = 2
    /\ Len(un_dec.self.sigs) = 2
    /\ un_dec.res.tag = "Ok"
    /\ DecodedAgain.res = Panic("assert_eq")

(***************************************************************************)
(* Claims about the tables built by insertion (checked under SpecTable).   *)
(***************************************************************************)
\* The bytes of the entries at the offsets offs: 4 + byte length each.
RECURSIVE EntryBytes(_, _)
EntryBytes(tbl, offs) ==
    IF offs = {} THEN 0
    ELSE LET o == CHOOSE x \in offs : TRUE IN
         STRING_LENGTH_PREFIX_BYTES + Len(tbl.off2str[o]) + EntryBytes(tbl, offs \ {o})

\* The two maps are inverse to each other; every offset is the sum of the
\* sizes of the entries before it; total_bytes is the sum of all sizes;
\* to_bytes() has total_bytes bytes and holds, at every offset, the length
\* of the entry on four bytes and then its bytes.
TableInvariant(tbl) ==
    /\ \A s \in DOMAIN tbl.str2off :
          tbl.str2off[s] \in DOMAIN tbl.off2str /\ tbl.off2str[tbl.str2off[s]] = s
    /\ \A o \in DOMAIN tbl.off2str :
          tbl.off2str[o] \in DOMAIN tbl.str2off /\ tbl.str2off[tbl.off2str[o]] = o
    /\ \A o \in DOMAIN tbl.off2str :
          o = EntryBytes(tbl, {p \in DOMAIN tbl.off2str : p < o})
    /\ tbl.total_bytes = EntryBytes(tbl, DOMAIN tbl.off2str)
    /\ Len(to_bytes(tbl)) = tbl.total_bytes
    /\ \A o \in DOMAIN tbl.off2str :
          /\ ReadU32(to_bytes(tbl), o) = Len(tbl.off2str[o])
          /\ Slice(to_bytes(tbl), o + STRING_LENGTH_PREFIX_BYTES,
                   o + STRING_LENGTH_PREFIX_BYTES + Len(tbl.off2str[o]))
                = Cells(tbl.off2str[o])

\* One insertion: every string keeps its offset, a string that is new gets
\* the end of the table before the call (so the order of the offsets is the
\* order of the first insertions), and the call returns the offset of its
\* string.
InsertionStable ==
    tbl_reads' = 0 =>
        /\ \A s \in DOMAIN tbl_self.str2off :
              s \in DOMAIN tbl_self'.str2off /\ tbl_self'.str2off[s] = tbl_self.str2off[s]
        /\ \A s \in DOMAIN tbl_self'.str2off \ DOMAIN tbl_self.str2off :
              s = tbl_last'.st /\ tbl_self'.str2off[s] = tbl_self.total_bytes
        /\ tbl_last'.op = "insert_str" =>
              tbl_last'.off = tbl_self'.str2off[tbl_last'.st]

\* C29: in every table reached from StringTable::new() by insert_str calls,
\* str2off and off2str are inverse bijections, an offset once returned for
\* a string never changes, the offsets are the running sums of 4 + byte
\* length of the distinct strings in the order of their first insertion,
\* total_bytes is the sum over all entries, and to_bytes() has total_bytes
\* bytes with the length prefix of every entry at its offset.
C29_InsertionInvariant ==
    [](tbl_reads = 0 => TableInvariant(tbl_self)) /\ [][InsertionStable]_vars

\* Three strings were inserted, the last of them for the second time, after
\* a string of another length.
C29_Witness ==
    /\ tbl_reads = 0
    /\ tbl_calls = MaxTableCalls
    /\ Cardinality(DOMAIN tbl_self.str2off) = 3
    /\ tbl_last.op = "insert_str"
    /\ tbl_last.st \in DOMAIN tbl_last.before.str2off
    /\ tbl_last.off = STRING_LENGTH_PREFIX_BYTES
    /\ \E s \in DOMAIN tbl_self.str2off : Len(s) > Len(tbl_last.st)

(***************************************************************************)
(* Claims about the statement after the retry loop (checked under         *)
(* SpecPki).                                                               *)
(***************************************************************************)
\* C30: the error after the loop of sign_digest and verify_digest is never
\* produced: for every retry_times and every sequence of outcomes of the
\* requests, the call returns from inside the loop, on a response, on an
\* error that is not retried, or on the failed request with
\* attempt == retry_times; the loop head is never reached with the range
\* exhausted.
C30_FallbackUnreachable ==
    /\ pki_ret # ErrFallback
    /\ pki_pc = "loop" => InLoopRange(attempt, retry_times)
    /\ pki_pc = "done" =>
          /\ Len(outcomes) >= 1
          /\ pki_ret = CallReturn(outcomes[Len(outcomes)], pki_op)
          /\ \/ outcomes[Len(outcomes)].kind = "response"
             \/ ~is_retryable(outcomes[Len(outcomes)])
             \/ attempt = retry_times

\* A call of verify_digest with retry_times = 0 ended on its first request,
\* a timeout, with the error of the loop.
C30_Witness ==
    /\ pki_pc = "done" /\ pki_op = "verify"
    /\ retry_times = 0
    /\ outcomes = <<ErrTimeout>>
    /\ pki_ret = ErrNetwork

====
